---- MODULE Spec2Model ----
(***************************************************************************)
(* Model of the Ecowitt Local data update coordinator                      *)
(* (custom_components/ecowitt_local): the refresh orchestrator             *)
(* (_async_update_data and the mapping refresh), the telemetry assembler   *)
(* (_process_live_data), the synthetic WS90 unit injection and the setup   *)
(* of a config entry.                                                      *)
(*                                                                         *)
(* Text is modelled as a sequence of one-character strings wherever the    *)
(* code looks inside it (hardware ids, firmware versions, device models,   *)
(* raw values); wire keys and channels are only compared and looked up,    *)
(* and are plain strings.                                                  *)
(***************************************************************************)
EXTENDS Integers, Sequences, FiniteSets, TLC

\* Python's None where a text is expected: a sequence that is no text (every
\* element of a text is one character).
None == <<"None">>

\* Python's truth value of an optional text.
Truthy(x) == x # None /\ x # <<>>

\* the empty dict
EmptyDict == [k \in {} |-> None]

\* d.get(k, default) for a dict modelled as a record.
Get(d, k, default) == IF k \in DOMAIN d THEN d[k] ELSE default

(***************************************************************************)
(* Text helpers: the str methods the coordinator uses.                     *)
(***************************************************************************)
Digits == <<"0", "1", "2", "3", "4", "5", "6", "7", "8", "9">>

\* int(c) of each digit
DigitOf == [c \in {Digits[i] : i \in 1..10} |-> (CHOOSE i \in 1..10 : Digits[i] = c) - 1]

IsDigitChar(c) == c \in DOMAIN DigitOf

DigitVal(c) == DigitOf[c]

\* str.isdigit(): non-empty and made of digits only.
IsDigit(s) == Len(s) > 0 /\ \A i \in 1..Len(s) : IsDigitChar(s[i])

RECURSIVE ToInt(_)
\* int(s) for a string of digits.
ToInt(s) == IF Len(s) = 0 THEN 0
            ELSE 10 * ToInt(SubSeq(s, 1, Len(s) - 1)) + DigitVal(s[Len(s)])

RECURSIVE ToStr(_)
\* str(n) for n >= 0.
ToStr(n) == IF n < 10 THEN <<Digits[n + 1]>>
            ELSE ToStr(n \div 10) \o <<Digits[(n % 10) + 1]>>

UpperCase == <<"A", "B", "C", "D", "E", "F", "G", "H", "I", "J", "K", "L", "M",
               "N", "O", "P", "Q", "R", "S", "T", "U", "V", "W", "X", "Y", "Z">>

LowerCase == <<"a", "b", "c", "d", "e", "f", "g", "h", "i", "j", "k", "l", "m",
               "n", "o", "p", "q", "r", "s", "t", "u", "v", "w", "x", "y", "z">>

\* the lower-case letter of each upper-case letter, and the reverse
LowerOf == [c \in {UpperCase[i] : i \in 1..Len(UpperCase)} |->
              LowerCase[CHOOSE i \in 1..Len(UpperCase) : UpperCase[i] = c]]

UpperOf == [c \in {LowerCase[i] : i \in 1..Len(LowerCase)} |->
              UpperCase[CHOOSE i \in 1..Len(LowerCase) : LowerCase[i] = c]]

LowerChar(c) == IF c \in DOMAIN LowerOf THEN LowerOf[c] ELSE c

UpperChar(c) == IF c \in DOMAIN UpperOf THEN UpperOf[c] ELSE c

\* str.lower()
Lower(s) == [i \in 1..Len(s) |-> LowerChar(s[i])]

\* str.upper()
Upper(s) == [i \in 1..Len(s) |-> UpperChar(s[i])]

\* p in s (substring test)
Contains(s, p) ==
    \E i \in 0..(Len(s) - Len(p)) : SubSeq(s, i + 1, i + Len(p)) = p

IsSpace(c) == c = " "

RECURSIVE LStrip(_)
LStrip(s) == IF Len(s) > 0 /\ IsSpace(s[1]) THEN LStrip(Tail(s)) ELSE s

RECURSIVE RStrip(_)
RStrip(s) == IF Len(s) > 0 /\ IsSpace(s[Len(s)])
             THEN RStrip(SubSeq(s, 1, Len(s) - 1)) ELSE s

\* str.strip()
Strip(s) == LStrip(RStrip(s))

RECURSIVE RemoveChar(_, _)
\* s.replace(c, "") for a one-character c
RemoveChar(s, c) ==
    IF Len(s) = 0 THEN <<>>
    ELSE IF s[1] = c THEN RemoveChar(Tail(s), c)
         ELSE <<s[1]>> \o RemoveChar(Tail(s), c)

RECURSIVE RemoveSub(_, _)
\* s.replace(p, "") for a non-empty p
RemoveSub(s, p) ==
    IF Len(s) < Len(p) THEN s
    ELSE IF SubSeq(s, 1, Len(p)) = p
         THEN RemoveSub(SubSeq(s, Len(p) + 1, Len(s)), p)
         ELSE <<s[1]>> \o RemoveSub(Tail(s), p)

\* s[-3:] if len(s) >= 3 else s
Last3(s) == IF Len(s) >= 3 THEN SubSeq(s, Len(s) - 2, Len(s)) ELSE s

(***************************************************************************)
(* Value normalizer: _convert_sensor_value.  A result is NoReading (Python *)
(* None), an integer                                                       *)
(* [t |-> "int", v |-> n], a decimal [t |-> "float", s |-> its text] or a  *)
(* string [t |-> "str", s |-> text].                                       *)
(***************************************************************************)
Alpha == {LowerCase[i] : i \in 1..Len(LowerCase)} \cup
         {UpperCase[i] : i \in 1..Len(UpperCase)}

IsSign(c) == c = "-" \/ c = "+"

Unsigned(s) == IF Len(s) > 0 /\ IsSign(s[1]) THEN Tail(s) ELSE s

AllDigits(s) == \A i \in 1..Len(s) : IsDigitChar(s[i])

\* group 1 of the regular expression: [-+]?\d*\.?\d+
MatchesNum(p) ==
    LET q == Unsigned(p) IN
    \/ IsDigit(q)
    \/ \E d \in 1..Len(q) :
          /\ q[d] = "."
          /\ AllDigits(SubSeq(q, 1, d - 1))
          /\ IsDigit(SubSeq(q, d + 1, Len(q)))

\* variant: the expression accepts no suffix after the number
MatchesUnitNone(r) == Len(LStrip(r)) = 0

\* the remainder of the regular expression: \s*([a-zA-Z%/]+.*)?$
MatchesUnit(r) ==
    LET u == LStrip(r) IN
    Len(u) = 0 \/ u[1] \in Alpha \/ u[1] = "%" \/ u[1] = "/"

\* re.match(r'^([-+]?\d*\.?\d+)\s*([a-zA-Z%/]+.*)?$', s): the length of
\* group 1, or 0 when the expression does not match.
UnitMatch(s) ==
    LET ok == {i \in 1..Len(s) : /\ MatchesNum(SubSeq(s, 1, i))
                                 /\ MatchesUnit(SubSeq(s, i + 1, Len(s)))}
    IN IF ok = {} THEN 0 ELSE CHOOSE i \in ok : \A j \in ok : j <= i

\* int(p) for an optionally signed string of digits
ToIntSigned(p) ==
    IF Len(p) > 0 /\ p[1] = "-" THEN 0 - ToInt(Tail(p)) ELSE ToInt(Unsigned(p))

\* the strings int() accepts (underscores are outside the modelled alphabet)
IntOk(s) == IsDigit(Unsigned(s))

\* [eE][-+]?\d+
ExponentOk(e) ==
    Len(e) >= 2 /\ (e[1] = "e" \/ e[1] = "E") /\ IsDigit(Unsigned(Tail(e)))

\* \d+(\.\d*)? | \.\d+
MantissaOk(m) ==
    \/ IsDigit(m)
    \/ \E d \in 1..Len(m) :
          /\ m[d] = "."
          /\ AllDigits(SubSeq(m, 1, d - 1))
          /\ AllDigits(SubSeq(m, d + 1, Len(m)))
          /\ Len(m) > 1

NonFinite == {<<"i", "n", "f">>, <<"n", "a", "n">>,
              <<"i", "n", "f", "i", "n", "i", "t", "y">>}

\* the strings float() accepts
FloatOk(s) ==
    LET q == Unsigned(s) IN
    \/ Lower(q) \in NonFinite
    \/ \E i \in 1..Len(q) :
          /\ MantissaOk(SubSeq(q, 1, i))
          /\ (i = Len(q) \/ ExponentOk(SubSeq(q, i + 1, Len(q))))

\* variant: the token n/a is not among the sentinel tokens
SentinelTokensWithoutNA == {<<"-", "-">>, <<"n", "u", "l", "l">>, <<"n", "o", "n", "e">>}

SentinelTokens == {<<"-", "-">>, <<"n", "u", "l", "l">>, <<"n", "o", "n", "e">>,
                   <<"n", "/", "a">>}

NoReading == [t |-> "none", v |-> 0, s |-> <<>>]
IntVal(n) == [t |-> "int", v |-> n, s |-> <<>>]
FloatVal(x) == [t |-> "float", v |-> 0, s |-> x]
StrVal(x) == [t |-> "str", v |-> 0, s |-> x]

_convert_sensor_value(value, unit) ==
    IF value = <<>> THEN NoReading
    ELSE
      LET str_value == Strip(value)
          g == UnitMatch(str_value)
          numeric_part == SubSeq(str_value, 1, g)
      IN IF \/ Lower(str_value) \in SentinelTokens
            \/ (Len(str_value) >= 2 /\ SubSeq(str_value, 1, 2) = <<"-", "-">>)
            \/ Strip(RemoveChar(RemoveChar(str_value, "-"), ".")) = <<>>
         THEN NoReading
         ELSE IF g > 0
         THEN IF ~Contains(numeric_part, <<".">>)
              THEN IntVal(ToIntSigned(numeric_part))
              ELSE FloatVal(numeric_part)
         ELSE IF IntOk(str_value) THEN IntVal(ToIntSigned(str_value))
         ELSE IF FloatOk(str_value) THEN FloatVal(str_value)
         ELSE StrVal(str_value)

(***************************************************************************)
(* Key tables of const.py (not among the sources), after the               *)
(* specification: the fixed gateway keys, the keys the all-in-one station  *)
(* produces (with the two ambiguous keys "3" and "5"), the battery keys    *)
(* and the system keys.                                                    *)
(***************************************************************************)
GATEWAY_SENSORS == {"tempinf", "humidityin", "baromabsin", "baromrelin",
                    "runtime", "heap"}

\* the list hex_id_sensors of _handle_ws90_device
hex_id_sensors == <<"0x02", "0x03", "0x07", "0x0B", "0x0C", "0x19", "0x0A",
                    "0x6D", "0x15", "0x17", "0x0D", "0x0E", "0x7C", "0x10",
                    "0x11", "0x12", "0x13", "0x14", "3", "5", "srain_piezo",
                    "ws90batt">>

WS90_HEX_SENSORS == {hex_id_sensors[i] : i \in 1..Len(hex_id_sensors)}

BATTERY_SENSORS == {"soilbatt1", "soilbatt2", "batt1", "batt2", "ws90batt",
                    "wh57batt"}

SYSTEM_SENSORS == {"runtime", "heap"}

\* the two keys _is_gateway_sensor assigns dynamically
dynamic_sensors == {"3", "5"}

(***************************************************************************)
(* Wire keys synthesized from a channel: f"soilmoisture{channel}" and the  *)
(* like.  A key is a plain string, so the concatenation is tabulated for   *)
(* the channels of the model.                                              *)
(***************************************************************************)
ChannelKey(prefix, channel, suffix) ==
    CASE channel = <<"1">> /\ prefix = "soilmoisture" -> "soilmoisture1"
      [] channel = <<"2">> /\ prefix = "soilmoisture" -> "soilmoisture2"
      [] channel = <<"1">> /\ prefix = "soilbatt" -> "soilbatt1"
      [] channel = <<"2">> /\ prefix = "soilbatt" -> "soilbatt2"
      [] channel = <<"1">> /\ prefix = "temp" /\ suffix = "f" -> "temp1f"
      [] channel = <<"2">> /\ prefix = "temp" /\ suffix = "f" -> "temp2f"
      [] channel = <<"1">> /\ prefix = "humidity" -> "humidity1"
      [] channel = <<"2">> /\ prefix = "humidity" -> "humidity2"
      [] channel = <<"1">> /\ prefix = "batt" -> "batt1"
      [] channel = <<"2">> /\ prefix = "batt" -> "batt2"

(***************************************************************************)
(* Sensor mapper (sensor_mapper.py is not among the sources; modelled      *)
(* after the specification, with the two tables the coordinator writes     *)
(* directly: _sensor_info, hardware id -> unit record, and                 *)
(* _hardware_mapping, wire key -> hardware id).                            *)
(***************************************************************************)
\* variant: 00000000 is not among the sentinel ids
SentinelIdsWithoutZero == {<<"F", "F", "F", "F", "F", "F", "F", "E">>,
                           <<"F", "F", "F", "F", "F", "F", "F", "F">>}

SentinelIds == {<<"F", "F", "F", "F", "F", "F", "F", "E">>,
                <<"F", "F", "F", "F", "F", "F", "F", "F">>,
                <<"0", "0", "0", "0", "0", "0", "0", "0">>}

IsSentinelId(hardware_id) == Upper(hardware_id) \in SentinelIds

\* the classification of a model code; an unknown code is "unknown"
SensorTypeOf(code) ==
    CASE code = "48" -> "wh90"
      [] code = "14" -> "wh51"
      [] code = "6" -> "wh31"
      [] OTHER -> "unknown"

\* the wire keys of a unit of this type on this channel
KeysOfUnit(sensor_type, channel) ==
    CASE sensor_type = "wh51" /\ channel \in {<<"1">>, <<"2">>} ->
            {ChannelKey("soilmoisture", channel, ""), ChannelKey("soilbatt", channel, "")}
      [] sensor_type = "wh31" /\ channel \in {<<"1">>, <<"2">>} ->
            {ChannelKey("temp", channel, "f"), ChannelKey("humidity", channel, ""),
             ChannelKey("batt", channel, "")}
      [] sensor_type = "wh90" -> {"0x02", "0x07", "0x0B", "0x0D", "srain_piezo"}
      [] OTHER -> {}

UnitOfEntry(e) ==
    [hardware_id |-> e.id, sensor_type |-> SensorTypeOf(e.type),
     channel |-> e.channel, device_model |-> e.img, battery |-> e.batt,
     signal |-> e.signal]

ValidEntries(snapshot) ==
    {i \in 1..Len(snapshot) :
        snapshot[i].id # <<>> /\ ~IsSentinelId(snapshot[i].id)}

\* the last valid entry of the snapshot carrying this hardware id
LastEntry(snapshot, hardware_id) ==
    CHOOSE i \in ValidEntries(snapshot) :
        /\ snapshot[i].id = hardware_id
        /\ \A j \in ValidEntries(snapshot) : snapshot[j].id = hardware_id => j <= i

RECURSIVE UpdateSensorInfoFrom(_, _, _)
UpdateSensorInfoFrom(snapshot, i, table) ==
    IF i > Len(snapshot) THEN table
    ELSE IF i \notin ValidEntries(snapshot)
            \/ \E j \in 1..(i - 1) : j \in ValidEntries(snapshot)
                                     /\ snapshot[j].id = snapshot[i].id
         THEN UpdateSensorInfoFrom(snapshot, i + 1, table)
         ELSE UpdateSensorInfoFrom(snapshot, i + 1,
                 Append(table, UnitOfEntry(snapshot[LastEntry(snapshot, snapshot[i].id)])))

\* update_mapping: the unit table rebuilt from the snapshot.  The table is a
\* Python dict, iterated in insertion order: a sequence of unit records, one
\* per hardware id.
UpdateSensorInfo(snapshot) == UpdateSensorInfoFrom(snapshot, 1, <<>>)

\* update_mapping: the wire-key table rebuilt from the snapshot (a key that
\* two entries claim goes to the later one)
UpdateHardwareMapping(snapshot) ==
    LET keysOf(i) == KeysOfUnit(SensorTypeOf(snapshot[i].type), snapshot[i].channel)
        owners(k) == {i \in ValidEntries(snapshot) : k \in keysOf(i)}
        keys == UNION {keysOf(i) : i \in ValidEntries(snapshot)}
    IN [k \in keys |-> snapshot[CHOOSE i \in owners(k) : \A j \in owners(k) : j <= i].id]

get_hardware_id(hardware_mapping, sensor_key) ==
    IF sensor_key \in DOMAIN hardware_mapping THEN hardware_mapping[sensor_key] ELSE None

\* the hardware ids of the unit table
InfoIds(sensor_info) == {sensor_info[i].hardware_id : i \in 1..Len(sensor_info)}

\* get_sensor_info(hardware_id) is not None
has_sensor_info(sensor_info, hardware_id) == hardware_id \in InfoIds(sensor_info)

\* get_sensor_info(hardware_id), for a known hardware id
get_sensor_info(sensor_info, hardware_id) ==
    sensor_info[CHOOSE i \in 1..Len(sensor_info) : sensor_info[i].hardware_id = hardware_id]

\* _sensor_info[hardware_id] = unit: in place for a known id, else appended
SetInfo(sensor_info, hardware_id, unit) ==
    IF hardware_id \in InfoIds(sensor_info)
    THEN [i \in 1..Len(sensor_info) |->
            IF sensor_info[i].hardware_id = hardware_id THEN unit ELSE sensor_info[i]]
    ELSE Append(sensor_info, unit)

\* generate_entity_id: the entity key of a wire key on a unit (None: on the
\* gateway); deterministic and one-to-one
generate_entity_id(sensor_key, hardware_id) == <<"sensor", sensor_key, hardware_id>>

(***************************************************************************)
(* Telemetry assembler: _process_live_data.                                *)
(***************************************************************************)
Pair(id, val) == [id |-> id, val |-> val]

\* str(int(battery) * 20) if battery.isdigit() else battery
BatteryPct(battery) == IF IsDigit(battery) THEN ToStr(ToInt(battery) * 20) ELSE battery

\* one item of ch_soil
SoilPairs(item) ==
    LET channel == Get(item, "channel", None)
        humidity == RemoveChar(Get(item, "humidity", <<>>), "%")
        battery == Get(item, "battery", None)
    IN IF Truthy(channel) /\ Truthy(humidity)
       THEN <<Pair(ChannelKey("soilmoisture", channel, ""), humidity)>> \o
            (IF Truthy(battery)
             THEN <<Pair(ChannelKey("soilbatt", channel, ""), BatteryPct(battery))>>
             ELSE <<>>)
       ELSE <<>>

\* the first item of wh25
Wh25Pairs(wh25_data) ==
    IF Len(wh25_data) = 0 THEN <<>>
    ELSE LET wh25_item == wh25_data[1] IN
         (IF "intemp" \in DOMAIN wh25_item
          THEN <<Pair("tempinf", wh25_item.intemp)>> ELSE <<>>) \o
         (IF "inhumi" \in DOMAIN wh25_item
          THEN <<Pair("humidityin", RemoveChar(wh25_item.inhumi, "%"))>> ELSE <<>>) \o
         (IF "abs" \in DOMAIN wh25_item
          THEN <<Pair("baromabsin", RemoveSub(wh25_item.abs, <<" ", "h", "P", "a">>))>>
          ELSE <<>>) \o
         (IF "rel" \in DOMAIN wh25_item
          THEN <<Pair("baromrelin", RemoveSub(wh25_item.rel, <<" ", "h", "P", "a">>))>>
          ELSE <<>>)

\* whether an item of piezoRain carries the WS90 metadata
HasWs90Metadata(item) ==
    /\ "id" \in DOMAIN item /\ "val" \in DOMAIN item
    /\ "battery" \in DOMAIN item /\ Truthy(item.battery)
    /\ "ws90_ver" \in DOMAIN item /\ Truthy(item.ws90_ver)

\* one item of piezoRain
RainPairs(item) ==
    IF "id" \in DOMAIN item /\ "val" \in DOMAIN item
    THEN <<Pair(item.id, item.val)>> \o
         (IF HasWs90Metadata(item)
          THEN <<Pair("ws90batt", BatteryPct(item.battery))>> ELSE <<>>)
    ELSE <<>>

NoneText == <<"N", "o", "n", "e">>

\* one item of ch_aisle
AislePairs(item) ==
    LET channel == Get(item, "channel", None)
        temp == Get(item, "temp", None)
        humidity == Get(item, "humidity", None)
        battery == Get(item, "battery", None)
    IN IF Truthy(channel)
       THEN (IF Truthy(temp) /\ temp # NoneText
             THEN <<Pair(ChannelKey("temp", channel, "f"), temp)>> ELSE <<>>) \o
            (IF Truthy(humidity) /\ humidity # NoneText
             THEN <<Pair(ChannelKey("humidity", channel, ""), RemoveChar(humidity, "%"))>>
             ELSE <<>>) \o
            (IF Truthy(battery) /\ battery # NoneText
             THEN <<Pair(ChannelKey("batt", channel, ""), BatteryPct(battery))>>
             ELSE <<>>)
       ELSE <<>>

RECURSIVE FlatMap(_, _, _)
\* the pairs of every item of a section, in order
FlatMap(section, i, kind) ==
    IF i > Len(section) THEN <<>>
    ELSE (CASE kind = "ch_soil" -> SoilPairs(section[i])
            [] kind = "piezoRain" -> RainPairs(section[i])
            [] kind = "ch_aisle" -> AislePairs(section[i]))
         \o FlatMap(section, i + 1, kind)

\* all_sensor_items: the flat list, then the soil, indoor, rain and
\* auxiliary-channel sections
AllSensorItems(raw_data) ==
    raw_data.common_list
    \o FlatMap(raw_data.ch_soil, 1, "ch_soil")
    \o Wh25Pairs(raw_data.wh25)
    \o FlatMap(raw_data.piezoRain, 1, "piezoRain")
    \o FlatMap(raw_data.ch_aisle, 1, "ch_aisle")

\* item.get("humidity", "").replace("%", "") raises AttributeError when the
\* field is present and null
SoilRaises(item) == "humidity" \in DOMAIN item /\ item.humidity = None

\* wh25_item["inhumi"].replace, ["abs"].replace and ["rel"].replace raise
\* when the field is present and null
Wh25Raises(wh25_data) ==
    /\ Len(wh25_data) > 0
    /\ \E k \in {"inhumi", "abs", "rel"} :
          k \in DOMAIN wh25_data[1] /\ wh25_data[1][k] = None

\* whether the extraction of the sections raises
ExtractionRaises(raw_data) ==
    \/ \E i \in 1..Len(raw_data.ch_soil) : SoilRaises(raw_data.ch_soil[i])
    \/ Wh25Raises(raw_data.wh25)

\* the items of piezoRain that carry the WS90 metadata
Ws90Items(raw_data) ==
    {i \in 1..Len(raw_data.piezoRain) : HasWs90Metadata(raw_data.piezoRain[i])}

\* ws90_metadata is not None
Ws90Detected(raw_data) == Ws90Items(raw_data) # {}

\* ws90_metadata: of the last item that carries it
Ws90Metadata(raw_data) ==
    LET item == raw_data.piezoRain[CHOOSE i \in Ws90Items(raw_data) :
                                       \A j \in Ws90Items(raw_data) : j <= i]
    IN [battery |-> item.battery, ws90_ver |-> item.ws90_ver]

(***************************************************************************)
(* Synthetic WS90 unit: _get_or_generate_ws90_hardware_id and              *)
(* _handle_ws90_device.                                                    *)
(***************************************************************************)
Wh90 == <<"w", "h", "9", "0">>
Ws90 == <<"w", "s", "9", "0">>

\* the units of the table whose device model contains wh90, in table order
Wh90Units(sensor_info) ==
    {i \in 1..Len(sensor_info) : Contains(Lower(sensor_info[i].device_model), Wh90)}

\* variant: the id is always generated from the version
_generate_ws90_hardware_id(sensor_info, ws90_metadata) ==
    IF Truthy(ws90_metadata.ws90_ver)
    THEN <<"D">> \o Last3(ws90_metadata.ws90_ver)
    ELSE <<"W", "S", "9", "0", "_", "D", "E", "F", "A", "U", "L", "T">>

_get_or_generate_ws90_hardware_id(sensor_info, ws90_metadata) ==
    IF Wh90Units(sensor_info) # {}
    THEN sensor_info[CHOOSE i \in Wh90Units(sensor_info) :
                        \A j \in Wh90Units(sensor_info) : i <= j].hardware_id
    ELSE IF Truthy(ws90_metadata.ws90_ver)
         THEN <<"D">> \o Last3(ws90_metadata.ws90_ver)
         ELSE <<"W", "S", "9", "0", "_", "D", "E", "F", "A", "U", "L", "T">>

\* the record _handle_ws90_device writes for the unit
Ws90Unit(ws90_hardware_id, ws90_metadata) ==
    [hardware_id |-> ws90_hardware_id, sensor_type |-> "WS90", channel |-> <<>>,
     device_model |-> Ws90, battery |-> ws90_metadata.battery, signal |-> <<"4">>]

\* variant: the wire keys are mapped but the unit's record is not written
Ws90SensorInfoUnwritten(sensor_info, ws90_metadata) == sensor_info

\* _handle_ws90_device: the unit table after the injection
Ws90SensorInfo(sensor_info, ws90_metadata) ==
    LET ws90_hardware_id == _get_or_generate_ws90_hardware_id(sensor_info, ws90_metadata)
    IN SetInfo(sensor_info, ws90_hardware_id, Ws90Unit(ws90_hardware_id, ws90_metadata))

\* variant: the wire-key table is replaced by the station's keys
Ws90HardwareMappingAlone(sensor_info, hardware_mapping, ws90_metadata) ==
    LET ws90_hardware_id == _get_or_generate_ws90_hardware_id(sensor_info, ws90_metadata)
    IN [k \in {hex_id_sensors[i] : i \in 1..Len(hex_id_sensors)} |-> ws90_hardware_id]

\* _handle_ws90_device: the wire-key table after the injection
Ws90HardwareMapping(sensor_info, hardware_mapping, ws90_metadata) ==
    LET ws90_hardware_id == _get_or_generate_ws90_hardware_id(sensor_info, ws90_metadata)
        mapped == {hex_id_sensors[i] : i \in 1..Len(hex_id_sensors)}
    IN [k \in DOMAIN hardware_mapping \cup mapped |->
          IF k \in mapped THEN ws90_hardware_id ELSE hardware_mapping[k]]

\* variant: "3" and "5" stay with the gateway when the station is present
_is_gateway_sensor_static(sensor_key, ws90_present) ==
    IF sensor_key \in GATEWAY_SENSORS THEN TRUE
    ELSE IF sensor_key \in dynamic_sensors THEN TRUE
    ELSE IF sensor_key \in WS90_HEX_SENSORS /\ ws90_present THEN FALSE
    ELSE TRUE

\* variant: a key outside the gateway's sets is left to the wire-key table
_is_gateway_sensor_unless_mapped(sensor_key, ws90_present) ==
    IF sensor_key \in GATEWAY_SENSORS THEN TRUE
    ELSE IF sensor_key \in dynamic_sensors /\ ~ws90_present THEN TRUE
    ELSE FALSE

_is_gateway_sensor(sensor_key, ws90_present) ==
    IF sensor_key \in GATEWAY_SENSORS THEN TRUE
    ELSE IF sensor_key \in dynamic_sensors /\ ~ws90_present THEN TRUE
    ELSE IF sensor_key \in WS90_HEX_SENSORS /\ ws90_present THEN FALSE
    ELSE TRUE

(***************************************************************************)
(* The readings.  Display name, unit and device class come from tables of  *)
(* const.py and play no part in identity or ownership; they are left out.  *)
(***************************************************************************)
NoDetails == [hardware_id |-> None, channel |-> None, device_model |-> None,
              battery |-> None, signal |-> None]

\* sensor_details of a reading
SensorDetails(sensor_info, hardware_id) ==
    IF Truthy(hardware_id) /\ has_sensor_info(sensor_info, hardware_id)
    THEN LET hardware_info == get_sensor_info(sensor_info, hardware_id)
         IN [hardware_id |-> hardware_id, channel |-> hardware_info.channel,
             device_model |-> hardware_info.device_model,
             battery |-> hardware_info.battery, signal |-> hardware_info.signal]
    ELSE NoDetails

Category(sensor_key) ==
    IF sensor_key \in BATTERY_SENSORS THEN "diagnostic"
    ELSE IF sensor_key \in SYSTEM_SENSORS THEN "system"
    ELSE "sensor"

\* converted_value of a reading
ConvertedValue(sensor_key, sensor_value) ==
    IF sensor_key \in BATTERY_SENSORS /\ Truthy(sensor_value) /\ IsDigit(sensor_value)
    THEN IF ToInt(sensor_value) <= 5
         THEN StrVal(ToStr(ToInt(sensor_value) * 20))
         ELSE StrVal(sensor_value)
    ELSE _convert_sensor_value(sensor_value, "")

\* the reading stored for one item of all_sensor_items
Reading(item, ws90_present, sensor_info, hardware_mapping) ==
    LET sensor_key == item.id
        sensor_value == IF Truthy(item.val) THEN item.val ELSE <<>>
        hardware_id == IF _is_gateway_sensor(sensor_key, ws90_present) THEN None
                       ELSE get_hardware_id(hardware_mapping, sensor_key)
    IN [entity_id |-> generate_entity_id(sensor_key, hardware_id),
        state |-> ConvertedValue(sensor_key, sensor_value),
        category |-> Category(sensor_key),
        sensor_key |-> sensor_key,
        hardware_id |-> hardware_id,
        raw_value |-> sensor_value,
        attributes |-> SensorDetails(sensor_info, hardware_id)]

\* variant: the loop also skips a key that belongs to no known set
SkippedUnlessKnown(item, include_inactive) ==
    \/ item.id = ""
    \/ ~Truthy(item.val) /\ ~include_inactive
    \/ item.id \notin GATEWAY_SENSORS \cup WS90_HEX_SENSORS

\* whether the loop over all_sensor_items skips the item
Skipped(item, include_inactive) ==
    \/ item.id = ""
    \/ ~Truthy(item.val) /\ ~include_inactive

\* variant: a reading is stored only when its entity key is new
PutIfAbsent(sensors_data, reading) ==
    [e \in DOMAIN sensors_data \cup {reading.entity_id} |->
        IF e \in DOMAIN sensors_data THEN sensors_data[e] ELSE reading]

\* sensors_data[entity_id] = reading
Put(sensors_data, reading) ==
    [e \in DOMAIN sensors_data \cup {reading.entity_id} |->
        IF e = reading.entity_id THEN reading ELSE sensors_data[e]]

RECURSIVE ProcessItems(_, _, _, _, _, _, _)
\* the loop over all_sensor_items, from item i on
ProcessItems(items, i, sensors_data, include_inactive, ws90_present, sensor_info, hardware_mapping) ==
    IF i > Len(items) THEN sensors_data
    ELSE ProcessItems(items, i + 1,
            IF Skipped(items[i], include_inactive) THEN sensors_data
            ELSE Put(sensors_data,
                     Reading(items[i], ws90_present, sensor_info, hardware_mapping)),
            include_inactive, ws90_present, sensor_info, hardware_mapping)

(***************************************************************************)
(* _add_diagnostic_and_signal_sensors.                                     *)
(***************************************************************************)
DiagnosticReading(kind, hardware_id, state, raw_value, details) ==
    [entity_id |-> <<kind, "", Lower(hardware_id)>>,
     state |-> state,
     category |-> "diagnostic",
     sensor_key |-> kind,
     hardware_id |-> hardware_id,
     raw_value |-> raw_value,
     attributes |-> details]

\* variant: the loop does not skip a unit without a channel
DiagnosticUnitsAnyChannel(sensors_data, sensor_info) ==
    {h \in {sensors_data[e].hardware_id : e \in DOMAIN sensors_data} :
        /\ Truthy(h)
        /\ has_sensor_info(sensor_info, h)}

\* the hardware ids the loop does not skip: carried by a reading, known to
\* the mapper, with a channel
DiagnosticUnits(sensors_data, sensor_info) ==
    {h \in {sensors_data[e].hardware_id : e \in DOMAIN sensors_data} :
        /\ Truthy(h)
        /\ has_sensor_info(sensor_info, h)
        /\ Truthy(get_sensor_info(sensor_info, h).channel)}

\* whether the signal strength reading is added for a unit
HasSignal(signal) == Truthy(signal) /\ signal # <<"-", "-">>

\* the diagnostic readings added for one unit
DiagnosticsOfUnit(sensor_info, hardware_id) ==
    LET hardware_info == get_sensor_info(sensor_info, hardware_id)
        channel == hardware_info.channel
        signal == hardware_info.signal
        signal_pct == IF IsDigit(signal) THEN ToStr(ToInt(signal) * 25) ELSE signal
    IN (IF HasSignal(signal)
        THEN {DiagnosticReading("sensor.ecowitt_signal_strength", hardware_id,
                 StrVal(signal_pct), signal,
                 [NoDetails EXCEPT !.hardware_id = hardware_id, !.signal = signal])}
        ELSE {})
       \cup
       {DiagnosticReading("sensor.ecowitt_hardware_id", hardware_id,
           StrVal(hardware_id), hardware_id,
           [NoDetails EXCEPT !.hardware_id = hardware_id]),
        DiagnosticReading("sensor.ecowitt_channel", hardware_id,
           StrVal(channel), channel,
           [NoDetails EXCEPT !.hardware_id = hardware_id, !.channel = channel])}

_add_diagnostic_and_signal_sensors(sensors_data, sensor_info) ==
    LET added == UNION {DiagnosticsOfUnit(sensor_info, h) :
                           h \in DiagnosticUnits(sensors_data, sensor_info)}
        ids == {r.entity_id : r \in added}
    IN [e \in DOMAIN sensors_data \cup ids |->
          IF e \in ids THEN CHOOSE r \in added : r.entity_id = e ELSE sensors_data[e]]

\* variant: the readings are resolved against the tables as they were
\* before the injection of the pass
SensorsDataBeforeInjection(raw_data, include_inactive, sensor_info, hardware_mapping) ==
    _add_diagnostic_and_signal_sensors(
       ProcessItems(AllSensorItems(raw_data), 1, EmptyDict, include_inactive,
                    Ws90Detected(raw_data), sensor_info, hardware_mapping),
       sensor_info)

\* sensors_data at the end of _process_live_data, before the gateway info
SensorsData(raw_data, include_inactive, sensor_info, hardware_mapping) ==
    LET ws90_present == Ws90Detected(raw_data)
        info == IF ws90_present THEN Ws90SensorInfo(sensor_info, Ws90Metadata(raw_data))
                ELSE sensor_info
        mapping == IF ws90_present
                   THEN Ws90HardwareMapping(sensor_info, hardware_mapping,
                                            Ws90Metadata(raw_data))
                   ELSE hardware_mapping
    IN _add_diagnostic_and_signal_sensors(
          ProcessItems(AllSensorItems(raw_data), 1, EmptyDict, include_inactive,
                       ws90_present, info, mapping),
          info)

(***************************************************************************)
(* Gateway information: _extract_model_from_firmware and the record        *)
(* _process_gateway_info builds.                                           *)
(***************************************************************************)
Unknown == <<"U", "n", "k", "n", "o", "w", "n">>

StartsWithGW(x) == Len(x) >= 2 /\ SubSeq(Upper(x), 1, 2) = <<"G", "W">>

\* the index of the first c in x, or 0
IndexOf(x, c) ==
    IF \E i \in 1..Len(x) : x[i] = c
    THEN CHOOSE i \in 1..Len(x) : x[i] = c /\ \A j \in 1..(i - 1) : x[j] # c
    ELSE 0

IsWordChar(c) == c \in Alpha \/ IsDigitChar(c) \/ c = "_"

\* group 1 of re.match(r'^(GW\w+)', x): its length, or 0
GwMatch(x) ==
    IF Len(x) >= 3 /\ x[1] = "G" /\ x[2] = "W" /\ IsWordChar(x[3])
    THEN CHOOSE n \in 3..Len(x) :
            /\ \A i \in 3..n : IsWordChar(x[i])
            /\ (n = Len(x) \/ ~IsWordChar(x[n + 1]))
    ELSE 0

_extract_model_from_firmware(firmware_version) ==
    LET u == IndexOf(firmware_version, "_")
        model == Strip(SubSeq(firmware_version, 1, u - 1))
    IN IF firmware_version = <<>> \/ firmware_version = Unknown THEN Unknown
       ELSE IF u > 0 /\ model # <<>> /\ StartsWithGW(model) THEN model
       ELSE IF StartsWithGW(firmware_version) /\ IndexOf(firmware_version, ".") = 0
            THEN Strip(firmware_version)
       ELSE IF GwMatch(firmware_version) > 0
            THEN SubSeq(firmware_version, 1, GwMatch(firmware_version))
       ELSE Unknown

Host == <<"h", "o", "s", "t">>

\* self._gateway_info == {}
NoGatewayInfo == [model |-> <<>>, firmware_version |-> <<>>, host |-> <<>>,
                  gateway_id |-> <<>>, empty |-> TRUE]

\* the record built from the answer of get_version
GatewayInfoOf(version_info) ==
    LET firmware_version == Get(version_info, "version", Unknown)
        extracted == _extract_model_from_firmware(firmware_version)
    IN [model |-> IF extracted = <<>> \/ extracted = Unknown
                  THEN Get(version_info, "stationtype", Unknown) ELSE extracted,
        firmware_version |-> firmware_version,
        host |-> Host,
        gateway_id |-> Get(version_info, "stationtype", <<"u", "n", "k", "n", "o", "w", "n">>),
        empty |-> FALSE]

\* variant: a failed get_version leaves self._gateway_info empty
PlaceholderNotCached == NoGatewayInfo

\* variant: the placeholder's gateway id is capitalised like its model
PlaceholderCapitalised ==
    [model |-> Unknown, firmware_version |-> Unknown, host |-> Host,
     gateway_id |-> Unknown, empty |-> FALSE]

\* the record built when get_version fails
PlaceholderGatewayInfo ==
    [model |-> Unknown, firmware_version |-> Unknown, host |-> Host,
     gateway_id |-> <<"u", "n", "k", "n", "o", "w", "n">>, empty |-> FALSE]

(***************************************************************************)
(* Inputs: what the gateway answers.                                       *)
(***************************************************************************)
HW_A == <<"A", "1">>
HW_B == <<"B", "2">>

Entry(id, img, type, channel, batt, signal) ==
    [id |-> id, img |-> img, type |-> type, channel |-> channel, batt |-> batt,
     signal |-> signal]

\* the answers of get_all_sensor_mappings: no unit at all; or the station
\* reported as a wh90, a soil sensor, and a slot no unit is paired to
Snapshots ==
    << <<>>,
       <<Entry(HW_A, Wh90, "48", <<"1">>, <<"3">>, <<"3">>),
         Entry(HW_B, <<"w", "h", "5", "1">>, "14", <<"1">>, <<"4">>, <<"4">>),
         Entry(<<"F", "F", "F", "F", "F", "F", "F", "E">>, <<"w", "h", "5", "1">>, "14", <<"2">>, <<"0">>, <<"-", "-">>)>> >>

Payload(common_list, ch_soil, wh25, piezoRain, ch_aisle) ==
    [common_list |-> common_list, ch_soil |-> ch_soil, wh25 |-> wh25,
     piezoRain |-> piezoRain, ch_aisle |-> ch_aisle]

\* the answers of get_live_data; the last one has a soil channel whose
\* humidity is null
Payloads ==
    << Payload(<<Pair("tempf", <<"7", "2", ".", "5">>), Pair("3", <<"6", "8">>), Pair("0x02", <<"2", "1", ".", "5">>),
                 Pair("tempinf", <<"7", "0">>), Pair("humidity", <<>>)>>,
               <<>>, <<>>, <<>>, <<>>),
       Payload(<<Pair("0x02", <<"2", "1", ".", "5">>), Pair("3", <<"2", "0">>), Pair("tempinf", <<"7", "0", ".", "1">>),
                 Pair("tempf", <<"7", "2">>), Pair("0x0B", <<>>)>>,
               <<>>,
               <<[intemp |-> <<"7", "0">>, inhumi |-> <<"4", "5", "%">>, abs |-> <<"1", "0", "1", "3", " ", "h", "P", "a">>]>>,
               <<[id |-> "srain_piezo", val |-> <<"1">>, battery |-> <<"3">>,
                  ws90_ver |-> <<"1", "5", "8">>]>>,
               <<>>),
       Payload(<<Pair("runtime", <<"1", "2", "3", "4", "5">>), Pair("soilbatt2", <<"4">>)>>,
               <<[channel |-> <<"1">>, humidity |-> <<>>, battery |-> <<"3">>],
                 [channel |-> <<"2">>, humidity |-> <<"4", "5", "%">>]>>,
               <<>>, <<>>,
               <<[channel |-> <<"1">>, temp |-> <<"2", "1", ".", "5">>, humidity |-> <<"N", "o", "n", "e">>,
                  battery |-> <<"0">>]>>),
       Payload(<<Pair("tempf", <<"7", "2", ".", "5">>)>>,
               <<[channel |-> <<"1">>, humidity |-> None]>>,
               <<>>, <<>>, <<>>) >>

\* the answers of get_version
VersionInfos ==
    << [version |-> <<"G", "W", "1", "_", "V", "2", ".", "4">>, stationtype |-> <<"G", "W", "1">>] >>

\* what a transport call can raise
ApiErrors == {"AuthenticationError", "ConnectionError", "Exception"}

(***************************************************************************)
(* Bounds and configuration.                                               *)
(***************************************************************************)
\* the clock stops here
MaxTime == 1

\* mapping_interval of the config entry, in clock units
MappingInterval == 1

\* the config entries (gateway instances) of the service model
MaxEntries == 2

VARIABLES
    now,                  \* the clock (datetime.now())
    include_inactive,     \* self._include_inactive
    sensor_info,          \* sensor_mapper._sensor_info
    hardware_mapping,     \* sensor_mapper._hardware_mapping
    last_mapping_update,  \* self._last_mapping_update, -1 for None
    gateway_info,         \* self._gateway_info
    version_calls,        \* how many times get_version was called
    mapping_attempts,     \* the clock readings of the time-gated mapping attempts so far
    version_err,          \* the exception _process_gateway_info caught in this poll
    data,                 \* self.data: the published catalog
    last_update_success,  \* self.last_update_success
    pc,                   \* where the poll in flight is suspended
    tick_now,             \* `now` of _update_sensor_mapping_if_needed, while awaited
    mapping_err,          \* the exception _update_sensor_mapping caught in this poll
    live_err,             \* the exception _async_update_data caught in this poll
    poll_outcome,         \* how the poll ended, "none" while it is in flight
    raw_data,             \* live_data of the last assembly pass
    ws90_id,              \* ws90_hardware_id of the last assembly pass
    processed,            \* sensors_data of the last assembly pass
    setup_pc,             \* where async_setup_entry is
    coord_exc,            \* what coordinator.async_setup raised
    entry_result,         \* what async_setup_entry surfaced
    devices,              \* identifiers in the device registry
    entities,             \* the entities of the sensor platform
    domain_data,          \* hass.data[DOMAIN]: the loaded entries of the service model
    service,              \* the service handler that was called, and its target
    service_pc,           \* where the service handler is
    tasks                 \* the coroutine the handler gathers, per entry

vars == <<now, include_inactive, sensor_info, hardware_mapping, last_mapping_update,
          gateway_info, version_calls, mapping_attempts, version_err, data, last_update_success, pc, tick_now, mapping_err,
          live_err, poll_outcome, raw_data, ws90_id, processed, setup_pc, coord_exc, entry_result, devices, entities,
          domain_data, service, service_pc, tasks>>

mapperVars == <<sensor_info, hardware_mapping>>
pollVars == <<last_mapping_update, gateway_info, version_calls, mapping_attempts, version_err, data, last_update_success, pc,
              tick_now, mapping_err, live_err, poll_outcome, raw_data, ws90_id,
              processed>>
setupVars == <<setup_pc, coord_exc, entry_result, devices, entities>>
serviceVars == <<domain_data, service, service_pc, tasks>>
coordinatorVars == <<now, include_inactive, mapperVars, pollVars, setupVars>>

Entries == 1..MaxEntries

\* a coroutine that was not created
NoTask == [pc |-> "none", mapping_err |-> "none", refresh |-> "none"]

NoService == [name |-> "none", device_id |-> 0]

NoPayload == Payload(<<>>, <<>>, <<>>, <<>>, <<>>)

\* self.data is None
NoData == [has |-> FALSE, sensors |-> EmptyDict, gateway_info |-> NoGatewayInfo]

Init ==
    /\ now = 0
    /\ include_inactive \in BOOLEAN
    /\ sensor_info = <<>>
    /\ hardware_mapping = EmptyDict
    /\ last_mapping_update = -1
    /\ gateway_info = NoGatewayInfo
    /\ version_calls = 0
    /\ mapping_attempts = <<>>
    /\ version_err = "none"
    /\ data = NoData
    /\ last_update_success = TRUE
    /\ pc = "idle"
    /\ tick_now = 0
    /\ mapping_err = "none"
    /\ live_err = "none"
    /\ poll_outcome = "none"
    /\ raw_data = NoPayload
    /\ ws90_id = None
    /\ processed = EmptyDict
    /\ setup_pc = "start"
    /\ coord_exc = "none"
    /\ entry_result = "pending"
    /\ devices = {}
    /\ entities = EmptyDict
    /\ domain_data = {}
    /\ service = NoService
    /\ service_pc = "idle"
    /\ tasks = [e \in Entries |-> NoTask]

\* time passes
Advance ==
    /\ now < MaxTime
    /\ now' = now + 1
    /\ UNCHANGED <<serviceVars, include_inactive, mapperVars, pollVars,
                   setupVars>>

(***************************************************************************)
(* _update_sensor_mapping: the tables after the attempt.  outcome is "ok"  *)
(* or what get_all_sensor_mappings or update_mapping raised; every         *)
(* exception is caught and logged.                                         *)
(***************************************************************************)
\* update_mapping applied to each answer of get_all_sensor_mappings
SnapshotSensorInfo == [n \in 1..Len(Snapshots) |-> UpdateSensorInfo(Snapshots[n])]

SnapshotHardwareMapping ==
    [n \in 1..Len(Snapshots) |-> UpdateHardwareMapping(Snapshots[n])]

\* variant: a failed refresh leaves the unit table empty
MappingSensorInfoCleared(outcome, n, old) ==
    IF outcome = "ok" THEN SnapshotSensorInfo[n] ELSE <<>>

\* n is the answer of get_all_sensor_mappings when outcome is "ok"
MappingSensorInfo(outcome, n, old) ==
    IF outcome = "ok" THEN SnapshotSensorInfo[n] ELSE old

\* variant: update_mapping rebuilds the unit table only
MappingHardwareMappingKept(outcome, n, old) == old

MappingHardwareMapping(outcome, n, old) ==
    IF outcome = "ok" THEN SnapshotHardwareMapping[n] ELSE old

(***************************************************************************)
(* Setup of the config entry: async_setup_entry of __init__.py, which      *)
(* runs coordinator.async_setup, the device registry and the platforms.    *)
(***************************************************************************)
\* what coordinator.async_setup raises for a failure of test_connection
SetupException(err) ==
    IF err = "AuthenticationError" THEN "ConfigEntryAuthFailed" ELSE "ConfigEntryNotReady"

\* what async_setup_entry raises when coordinator.async_setup raised exc
EntryException(exc) == "ConfigEntryNotReady"

\* await self.api.test_connection()
SetupTestConnection ==
    /\ setup_pc = "start"
    /\ \E outcome \in {"ok"} \cup ApiErrors :
          IF outcome = "ok"
          THEN /\ setup_pc' = "mapping"
               /\ UNCHANGED <<coord_exc, entry_result>>
          ELSE /\ setup_pc' = "failed"
               /\ coord_exc' = SetupException(outcome)
               /\ entry_result' = EntryException(SetupException(outcome))
    /\ UNCHANGED <<serviceVars, now, include_inactive, mapperVars, pollVars,
                   devices, entities>>

\* await self._update_sensor_mapping(), the initial one
SetupInitialMapping ==
    /\ setup_pc = "mapping"
    /\ \/ \E n \in 1..Len(Snapshots) :
             /\ sensor_info' = MappingSensorInfo("ok", n, sensor_info)
             /\ hardware_mapping' =
                   MappingHardwareMapping("ok", n, hardware_mapping)
       \/ \E err \in ApiErrors :
             /\ sensor_info' = MappingSensorInfo(err, 1, sensor_info)
             /\ hardware_mapping' = MappingHardwareMapping(err, 1, hardware_mapping)
    /\ setup_pc' = "registry"
    /\ UNCHANGED <<serviceVars, now, include_inactive, pollVars, coord_exc, entry_result, devices,
                   entities>>

\* the hardware ids _async_setup_device_registry creates a device for
ProvisionedIds(info) ==
    {h \in InfoIds(info) : h # <<>> /\ Upper(h) \notin SentinelIds}

\* variant: the gateway id is the station type even before get_version
GatewayDeviceIdOfStation ==
    IF gateway_info.empty THEN VersionInfos[1].stationtype ELSE gateway_info.gateway_id

\* gateway_info.get("gateway_id", "unknown"), of the device registry and of
\* the entities
GatewayDeviceId ==
    IF gateway_info.empty THEN <<"u", "n", "k", "n", "o", "w", "n">>
    ELSE gateway_info.gateway_id

\* _async_setup_device_registry
SetupDeviceRegistry ==
    /\ setup_pc = "registry"
    /\ devices' = {GatewayDeviceId} \cup ProvisionedIds(sensor_info)
    /\ setup_pc' = "platforms"
    /\ UNCHANGED <<serviceVars, now, include_inactive, mapperVars, pollVars,
                   coord_exc, entry_result, entities>>

(***************************************************************************)
(* A telemetry poll: _async_update_data, run by the update coordinator of  *)
(* the host platform, which publishes the returned catalog as self.data    *)
(* and keeps the previous one when the poll raises.  The poll is suspended *)
(* at each transport call: pc is "mapping" while get_all_sensor_mappings   *)
(* is awaited, "live" while get_live_data is, "version" while get_version  *)
(* is.                                                                     *)
(***************************************************************************)
\* variant: the gate is advanced only by an attempt that succeeded
GateAfterAttemptIfOk(outcome, last, t) == IF outcome = "none" THEN t ELSE last

\* self._last_mapping_update = now, after the awaited attempt whatever its
\* outcome (_update_sensor_mapping catches every exception)
GateAfterAttempt(outcome, last, t) == t

\* variant: the refresh is due at every tick
MappingDueAlways(last, t) == TRUE

\* the condition of _update_sensor_mapping_if_needed
MappingDue(last, t) == last = -1 \/ t - last >= MappingInterval

\* variant: every exception of the poll becomes UpdateFailed
PollExceptionRetriable(err) == "UpdateFailed"

\* what _async_update_data raises for an exception it caught
PollException(err) ==
    IF err = "AuthenticationError" THEN "ConfigEntryAuthFailed" ELSE "UpdateFailed"

\* config_entry.entry_id: an identifier the host platform generates, never
\* a hardware id of the gateway
EntryId == <<"0", "1", "J", "7", "E", "N", "T", "R", "Y">>

\* variant: the unique id is always scoped by the config entry
unique_id_of_entry(sensor_key, hardware_id) ==
    <<"ecowitt_local", "_">> \o EntryId \o <<"_", sensor_key>>

\* _attr_unique_id of EcowittLocalSensor.__init__: the f-string, as the
\* sequence of its pieces (the domain and the wire key are one piece each)
unique_id(sensor_key, hardware_id) ==
    IF Truthy(hardware_id)
    THEN <<"ecowitt_local", "_">> \o hardware_id \o <<"_", sensor_key>>
    ELSE <<"ecowitt_local", "_">> \o EntryId \o <<"_", sensor_key>>

\* the entities the sensor platform creates from the first catalog
EntitiesOf(sensors) ==
    [e \in {x \in DOMAIN sensors :
               sensors[x].category \in {"sensor", "battery", "system", "diagnostic"}} |->
        [sensor_key |-> sensors[e].sensor_key, hardware_id |-> sensors[e].hardware_id,
         category |-> sensors[e].category,
         unique_id |-> unique_id(sensors[e].sensor_key, sensors[e].hardware_id)]]

\* the end of the first refresh, which the sensor platform awaits before it
\* creates its entities
FirstRefreshDone(sensors, ok) ==
    IF setup_pc = "platforms"
    THEN /\ setup_pc' = "loaded"
         /\ entry_result' = "loaded"
         /\ entities' = IF ok THEN EntitiesOf(sensors) ELSE EmptyDict
         /\ UNCHANGED <<coord_exc, devices>>
    ELSE UNCHANGED setupVars

\* the poll returns its catalog
Publish(sensors, info) ==
    /\ data' = [has |-> TRUE, sensors |-> sensors, gateway_info |-> info]
    /\ last_update_success' = TRUE
    /\ poll_outcome' = "catalog"
    /\ pc' = "idle"
    /\ FirstRefreshDone(sensors, TRUE)

\* the poll raises
Fail(err) ==
    /\ live_err' = err
    /\ poll_outcome' = PollException(err)
    /\ last_update_success' = FALSE
    /\ data' = data
    /\ pc' = "idle"
    /\ FirstRefreshDone(EmptyDict, FALSE)

\* a poll starts: _update_sensor_mapping_if_needed reads the clock
TickBegin ==
    /\ setup_pc \in {"platforms", "loaded"}
    /\ pc = "idle"
    /\ tick_now' = IF MappingDue(last_mapping_update, now) THEN now ELSE 0
    /\ pc' = IF MappingDue(last_mapping_update, now) THEN "mapping" ELSE "live"
    /\ mapping_attempts' = IF MappingDue(last_mapping_update, now)
                         THEN Append(mapping_attempts, now) ELSE mapping_attempts
    /\ mapping_err' = "none"
    /\ live_err' = "none"
    /\ version_err' = "none"
    /\ poll_outcome' = "none"
    /\ raw_data' = NoPayload
    /\ ws90_id' = None
    /\ processed' = EmptyDict
    /\ UNCHANGED <<serviceVars, now, include_inactive, mapperVars, last_mapping_update, gateway_info,
                   version_calls,
                   data, last_update_success, setupVars>>

\* the time-gated _update_sensor_mapping of the poll ends
TickMapping ==
    /\ pc = "mapping"
    /\ \/ \E n \in 1..Len(Snapshots) :
             /\ sensor_info' = MappingSensorInfo("ok", n, sensor_info)
             /\ hardware_mapping' =
                   MappingHardwareMapping("ok", n, hardware_mapping)
             /\ mapping_err' = "none"
       \/ \E err \in ApiErrors :
             /\ sensor_info' = MappingSensorInfo(err, 1, sensor_info)
             /\ hardware_mapping' = MappingHardwareMapping(err, 1, hardware_mapping)
             /\ mapping_err' = err
    /\ last_mapping_update' = GateAfterAttempt(mapping_err', last_mapping_update, tick_now)
    /\ tick_now' = 0
    /\ pc' = "live"
    /\ UNCHANGED <<serviceVars, now, include_inactive, gateway_info, version_calls, mapping_attempts, version_err, data,
                   last_update_success,
                   live_err, poll_outcome, raw_data, ws90_id, processed, setupVars>>

\* get_live_data answers and _process_live_data assembles the catalog, up
\* to the gateway info
TickLive ==
    /\ pc = "live"
    /\ \E n \in 1..Len(Payloads) :
          LET live_data == Payloads[n]
              ws90_present == Ws90Detected(live_data)
          IN /\ ~ExtractionRaises(live_data)
             /\ raw_data' = live_data
             /\ ws90_id' = IF ws90_present
                           THEN _get_or_generate_ws90_hardware_id(
                                   sensor_info, Ws90Metadata(live_data))
                           ELSE None
             /\ sensor_info' = IF ws90_present
                               THEN Ws90SensorInfo(sensor_info, Ws90Metadata(live_data))
                               ELSE sensor_info
             /\ hardware_mapping' =
                   IF ws90_present
                   THEN Ws90HardwareMapping(sensor_info, hardware_mapping,
                                            Ws90Metadata(live_data))
                   ELSE hardware_mapping
             /\ processed' = SensorsData(live_data, include_inactive, sensor_info,
                                         hardware_mapping)
    /\ IF gateway_info.empty
       THEN /\ pc' = "version"
            /\ UNCHANGED <<data, last_update_success, poll_outcome, setupVars>>
       ELSE Publish(processed', gateway_info)
    /\ UNCHANGED <<serviceVars, now, include_inactive, last_mapping_update, gateway_info,
                   version_calls, mapping_attempts, version_err, tick_now, mapping_err, live_err>>

\* get_live_data raises
TickLiveFails ==
    /\ pc = "live"
    /\ \E err \in ApiErrors : Fail(err)
    /\ UNCHANGED <<serviceVars, now, include_inactive, mapperVars, last_mapping_update, gateway_info,
                   version_calls, mapping_attempts, version_err,
                   tick_now, mapping_err, raw_data, ws90_id, processed>>

\* get_live_data answers and the extraction of _process_live_data raises,
\* before the mapper is touched; _async_update_data catches the exception
TickAssemblyFails ==
    /\ pc = "live"
    /\ \E n \in 1..Len(Payloads) :
          /\ ExtractionRaises(Payloads[n])
          /\ raw_data' = Payloads[n]
    /\ Fail("Exception")
    /\ UNCHANGED <<serviceVars, now, include_inactive, mapperVars, last_mapping_update, gateway_info,
                   version_calls, mapping_attempts, version_err,
                   tick_now, mapping_err, ws90_id, processed>>

\* get_version answers or raises, and the poll returns
TickVersion ==
    /\ pc = "version"
    /\ \/ \E n \in 1..Len(VersionInfos) :
             /\ gateway_info' = GatewayInfoOf(VersionInfos[n])
             /\ version_err' = "none"
       \/ \E err \in ApiErrors :
             /\ gateway_info' = PlaceholderGatewayInfo
             /\ version_err' = err
    /\ version_calls' = version_calls + 1
    /\ Publish(processed, gateway_info')
    /\ UNCHANGED <<serviceVars, now, include_inactive, mapperVars, last_mapping_update, tick_now,
                   mapping_attempts, mapping_err, live_err, raw_data, ws90_id, processed>>

(***************************************************************************)
(* The refresh-mapping service: async_refresh_mapping of the coordinator.  *)
(* Its _update_sensor_mapping runs outside the poll, whenever the service  *)
(* is called; the action is the moment its transport call ends.  The       *)
(* refresh it then requests is a poll like any other.                      *)
(***************************************************************************)
RefreshMapping ==
    /\ setup_pc = "loaded"
    /\ \/ \E n \in 1..Len(Snapshots) :
             /\ sensor_info' = MappingSensorInfo("ok", n, sensor_info)
             /\ hardware_mapping' =
                   MappingHardwareMapping("ok", n, hardware_mapping)
       \/ \E err \in ApiErrors :
             /\ sensor_info' = MappingSensorInfo(err, 1, sensor_info)
             /\ hardware_mapping' = MappingHardwareMapping(err, 1, hardware_mapping)
    /\ UNCHANGED <<serviceVars, now, include_inactive, pollVars, setupVars>>

(***************************************************************************)
(* What the entity layer reads: get_all_sensors and get_sensor_data of the *)
(* coordinator, and EcowittLocalSensor.available.                          *)
(***************************************************************************)
\* variant: the readings are withheld after a failed poll
get_all_sensors_fresh ==
    IF ~data.has \/ ~last_update_success THEN EmptyDict ELSE data.sensors

get_all_sensors == IF ~data.has THEN EmptyDict ELSE data.sensors

\* get_sensor_data(entity_id): the reading in a one-element sequence, or
\* the empty sequence for None
get_sensor_data(entity_id) ==
    IF entity_id \in DOMAIN get_all_sensors THEN <<get_all_sensors[entity_id]>> ELSE <<>>

\* EcowittLocalSensor.available of the entity created for entity_id
available(entity_id) ==
    IF ~last_update_success THEN FALSE
    ELSE IF get_sensor_data(entity_id) = <<>> THEN FALSE
    ELSE IF /\ Truthy(entities[entity_id].hardware_id)
            /\ get_sensor_data(entity_id)[1].state = NoReading
         THEN include_inactive
    ELSE TRUE

Next ==
    \/ Advance
    \/ SetupTestConnection
    \/ SetupInitialMapping
    \/ SetupDeviceRegistry
    \/ TickBegin
    \/ TickMapping
    \/ TickLive
    \/ TickLiveFails
    \/ TickAssemblyFails
    \/ TickVersion
    \/ RefreshMapping

Spec == Init /\ [][Next]_vars

(***************************************************************************)
(* The services of __init__.py over several gateway instances.  A handler  *)
(* collects the coordinators of its target, creates one coroutine per      *)
(* coordinator and awaits asyncio.gather over them: the coroutines run     *)
(* concurrently, gather returns when all have returned and raises as soon  *)
(* as one raises, without cancelling the others.  The refresh a coroutine  *)
(* requests from the host platform reports a failed poll through           *)
(* last_update_success and returns.                                        *)
(***************************************************************************)
\* variant: _update_sensor_mapping lets the exception through
UpdateSensorMappingExceptionPropagated(err) == err

\* what _update_sensor_mapping raises when its fetch or the mapper raised
\* err: nothing, the exception is logged
UpdateSensorMappingException(err) == "none"

\* the coordinators a handler collects: of the target device's entries, or
\* all of hass.data[DOMAIN]
Coordinators(device_id) ==
    IF device_id # 0 THEN {e \in domain_data : e = device_id} ELSE domain_data

FanOutInit ==
    /\ now = 0
    /\ include_inactive = FALSE
    /\ sensor_info = <<>>
    /\ hardware_mapping = EmptyDict
    /\ last_mapping_update = -1
    /\ gateway_info = NoGatewayInfo
    /\ version_calls = 0
    /\ mapping_attempts = <<>>
    /\ version_err = "none"
    /\ data = NoData
    /\ last_update_success = TRUE
    /\ pc = "idle"
    /\ tick_now = 0
    /\ mapping_err = "none"
    /\ live_err = "none"
    /\ poll_outcome = "none"
    /\ raw_data = NoPayload
    /\ ws90_id = None
    /\ processed = EmptyDict
    /\ setup_pc = "start"
    /\ coord_exc = "none"
    /\ entry_result = "pending"
    /\ devices = {}
    /\ entities = EmptyDict
    /\ domain_data \in SUBSET Entries
    /\ service = NoService
    /\ service_pc = "idle"
    /\ tasks = [e \in Entries |-> NoTask]

\* a service is called: the handler creates the coroutines and awaits
\* gather, or returns at once when there is none
ServiceCall ==
    /\ service_pc = "idle"
    /\ \E name \in {"refresh_mapping", "update_data"}, device_id \in {0} \cup Entries :
          /\ service' = [name |-> name, device_id |-> device_id]
          /\ tasks' = [e \in Entries |->
                         IF e \in Coordinators(device_id)
                         THEN [NoTask EXCEPT !.pc = IF name = "refresh_mapping"
                                                    THEN "mapping" ELSE "refresh"]
                         ELSE NoTask]
          /\ service_pc' = IF Coordinators(device_id) = {} THEN "returned" ELSE "gather"
    /\ UNCHANGED <<coordinatorVars, domain_data>>

\* coordinator.async_refresh_mapping of one entry: _update_sensor_mapping ends
TaskMapping ==
    /\ \E e \in Entries, outcome \in {"ok"} \cup ApiErrors :
          /\ tasks[e].pc = "mapping"
          /\ tasks' = [tasks EXCEPT
                ![e] = IF outcome = "ok" \/ UpdateSensorMappingException(outcome) = "none"
                       THEN [pc |-> "refresh",
                             mapping_err |-> IF outcome = "ok" THEN "none" ELSE outcome,
                             refresh |-> "none"]
                       ELSE [pc |-> "raised", mapping_err |-> outcome, refresh |-> "none"]]
    /\ UNCHANGED <<coordinatorVars, domain_data, service, service_pc>>

\* async_request_refresh of one entry returns, after a poll that ended in a
\* catalog or failed
TaskRefresh ==
    /\ \E e \in Entries, outcome \in {"catalog", "ConfigEntryAuthFailed", "UpdateFailed"} :
          /\ tasks[e].pc = "refresh"
          /\ tasks' = [tasks EXCEPT ![e].pc = "done", ![e].refresh = outcome]
    /\ UNCHANGED <<coordinatorVars, domain_data, service, service_pc>>

\* await asyncio.gather(*tasks) ends: with the first exception, or when
\* every coroutine has returned
GatherEnds ==
    /\ service_pc = "gather"
    /\ IF \E e \in Entries : tasks[e].pc = "raised"
       THEN service_pc' = "raised"
       ELSE /\ \A e \in Entries : tasks[e].pc \in {"none", "done"}
            /\ service_pc' = "returned"
    /\ UNCHANGED <<coordinatorVars, domain_data, service, tasks>>

FanOutNext ==
    \/ ServiceCall
    \/ TaskMapping
    \/ TaskRefresh
    \/ GatherEnds

FanOutSpec == FanOutInit /\ [][FanOutNext]_vars

(***************************************************************************)
(* Properties.                                                             *)
(***************************************************************************)
\* the step in which the assembly pass of a poll runs to its catalog
PassStep == pc = "live" /\ pc' # "live" /\ live_err' = "none"

\* a pass has run in the poll in flight or just ended
PassDone == raw_data # NoPayload /\ live_err = "none"

\* the step in which a poll fails with a transport failure
TransportFailureStep == pc = "live" /\ live_err' \in {"ConnectionError", "Exception"}

\* a reading made from a (wire_key, raw_value) pair
IsWireReading(r) == r.entity_id[1] = "sensor"

SynthesizedKinds == {"sensor.ecowitt_signal_strength", "sensor.ecowitt_hardware_id",
                     "sensor.ecowitt_channel"}

\* the hardware ids the readings of a catalog carry
HardwareIdsIn(sensors) ==
    {sensors[e].hardware_id : e \in DOMAIN sensors} \ {None, <<>>}

\* the synthesized diagnostic readings of a unit in a catalog
SynthesizedFor(sensors, h) ==
    {e \in DOMAIN sensors : /\ sensors[e].sensor_key \in SynthesizedKinds
                            /\ sensors[e].hardware_id = h}

\* every reading with a hardware id references a unit the mapper knows, and
\* a reading for an unmapped wire key has none
CatalogKnown(sensors, info, mapping) ==
    \A e \in DOMAIN sensors :
        /\ Truthy(sensors[e].hardware_id) => has_sensor_info(info, sensors[e].hardware_id)
        /\ (IsWireReading(sensors[e]) /\ sensors[e].sensor_key \notin DOMAIN mapping)
              => sensors[e].hardware_id = None

\* C1, as stated: in every reachable state every reading of the published
\* catalog with a hardware id references a unit the mapper currently knows,
\* and readings for unmapped wire keys carry no hardware id.
C1_PublishedCatalogKnown == CatalogKnown(get_all_sensors, sensor_info, hardware_mapping)

\* C1, amended: at the end of every assembly pass, every reading of the
\* catalog the pass produced that has a hardware id references a unit the
\* mapper knows at that moment, and readings for unmapped wire keys carry no
\* hardware id.
C1_PassCatalogKnown ==
    [][PassStep => CatalogKnown(processed', sensor_info', hardware_mapping')]_vars

\* C1 witness: a pass has produced a reading whose hardware id is a unit of
\* the mapper.
C1_Witness ==
    /\ PassDone
    /\ \E e \in DOMAIN processed :
          /\ Truthy(processed[e].hardware_id)
          /\ has_sensor_info(sensor_info, processed[e].hardware_id)

ExpectedKinds(info, h) ==
    IF has_sensor_info(info, h) /\ get_sensor_info(info, h).channel # <<>>
    THEN {"sensor.ecowitt_hardware_id", "sensor.ecowitt_channel"} \cup
         (IF get_sensor_info(info, h).signal \notin {<<>>, <<"-", "-">>}
          THEN {"sensor.ecowitt_signal_strength"} ELSE {})
    ELSE {}

StationUnits(info) == {i \in 1..Len(info) : info[i].sensor_type = "WS90"}

\* C3: the mapper never holds more than one unit for the all-in-one
\* station: repeated detection without a rebuild of the table in between
\* converges on one unit.
C3_OneStationUnit == Cardinality(StationUnits(sensor_info)) <= 1

\* C4: a key of the fixed gateway set is gateway-owned; "3" and "5" are
\* gateway-owned when the pass detected no station and carry the station's
\* hardware id when it did; a key the station produces carries the station's
\* hardware id whenever the station is detected.
C4_OwnershipRule ==
    PassDone =>
      /\ Ws90Detected(raw_data) <=> ws90_id # None
      /\ \A e \in DOMAIN processed :
            LET r == processed[e] IN
            IsWireReading(r) =>
              /\ r.sensor_key \in GATEWAY_SENSORS => r.hardware_id = None
              /\ r.sensor_key \in {"3", "5"} =>
                    r.hardware_id = (IF Ws90Detected(raw_data) THEN ws90_id ELSE None)
              /\ (r.sensor_key \in WS90_HEX_SENSORS /\ Ws90Detected(raw_data))
                    => r.hardware_id = ws90_id

\* C4 witness: a pass that detected the station gave "3" the station's
\* hardware id and left a fixed gateway key to the gateway.
C4_Witness ==
    /\ PassDone
    /\ ws90_id # None
    /\ \E e \in DOMAIN processed :
          processed[e].sensor_key = "3" /\ processed[e].hardware_id = ws90_id
    /\ \E e \in DOMAIN processed :
          processed[e].sensor_key \in GATEWAY_SENSORS /\ processed[e].hardware_id = None

\* the pairs of a payload with a key and a raw value
LivePairs(payload) ==
    {i \in 1..Len(AllSensorItems(payload)) :
        AllSensorItems(payload)[i].id # "" /\ Truthy(AllSensorItems(payload)[i].val)}

\* C5: every pair with a key and a raw value yields a reading, also when
\* the mapper has no unit for the key; the reading is then gateway-owned.
C5_NeverDropped ==
    [][PassStep =>
         \A i \in LivePairs(raw_data') :
            \E e \in DOMAIN processed' :
               /\ IsWireReading(processed'[e])
               /\ processed'[e].sensor_key = AllSensorItems(raw_data')[i].id
               /\ AllSensorItems(raw_data')[i].id \notin DOMAIN hardware_mapping'
                     => processed'[e].hardware_id = None]_vars

\* C5 witness: a pass produced a reading for a key the mapper maps to no
\* unit.
C5_Witness ==
    /\ PassDone
    /\ \E e \in DOMAIN processed :
          /\ IsWireReading(processed[e])
          /\ processed[e].sensor_key \notin DOMAIN hardware_mapping
          /\ processed[e].raw_value # <<>>
          /\ processed[e].hardware_id = None

\* the wire keys of a payload whose raw value is the empty string: in the
\* flat list and the rain section, and the keys of the soil, indoor and
\* auxiliary-channel sections whose field is empty
EmptyKeys(payload) ==
    {payload.common_list[i].id : i \in {j \in 1..Len(payload.common_list) :
                                          payload.common_list[j].val = <<>>}}
    \cup {payload.piezoRain[i].id : i \in {j \in 1..Len(payload.piezoRain) :
                                          payload.piezoRain[j].val = <<>>}}
    \cup {ChannelKey("soilmoisture", payload.ch_soil[i].channel, "") :
             i \in {j \in 1..Len(payload.ch_soil) :
                      /\ Truthy(Get(payload.ch_soil[j], "channel", None))
                      /\ Get(payload.ch_soil[j], "humidity", None) = <<>>}}
    \cup {ChannelKey("temp", payload.ch_aisle[i].channel, "f") :
             i \in {j \in 1..Len(payload.ch_aisle) :
                      /\ Truthy(Get(payload.ch_aisle[j], "channel", None))
                      /\ Get(payload.ch_aisle[j], "temp", None) = <<>>}}
    \cup {ChannelKey("humidity", payload.ch_aisle[i].channel, "") :
             i \in {j \in 1..Len(payload.ch_aisle) :
                      /\ Truthy(Get(payload.ch_aisle[j], "channel", None))
                      /\ Get(payload.ch_aisle[j], "humidity", None) = <<>>}}
    \cup (IF Len(payload.wh25) > 0 /\ Get(payload.wh25[1], "intemp", None) = <<>>
          THEN {"tempinf"} ELSE {})
    \cup (IF Len(payload.wh25) > 0 /\ Get(payload.wh25[1], "inhumi", None) = <<>>
          THEN {"humidityin"} ELSE {})

\* C6: for a key whose raw value is the empty string, from the flat list or
\* from a per-channel section: without include_inactive no reading is
\* produced for it, with include_inactive a reading of value NoReading is.
C6_EmptyValue ==
    PassDone =>
      \A k \in EmptyKeys(raw_data) :
         IF include_inactive
         THEN \E e \in DOMAIN processed :
                 /\ IsWireReading(processed[e])
                 /\ processed[e].sensor_key = k
                 /\ processed[e].state = NoReading
         ELSE \A e \in DOMAIN processed : processed[e].sensor_key # k

\* C7: a failed mapping refresh of a poll leaves both tables of the mapper
\* as they were and is not propagated: the poll goes on to fetch the live
\* telemetry, and a pass that follows ends in a catalog.
C7_MappingFailureAbsorbed ==
    [][/\ (pc = "mapping" /\ mapping_err' # "none")
            => /\ sensor_info' = sensor_info
               /\ hardware_mapping' = hardware_mapping
               /\ pc' = "live"
               /\ poll_outcome' = "none"
       /\ (PassStep /\ mapping_err # "none")
            => (pc' = "version" \/ poll_outcome' = "catalog")]_vars

\* C7 witness: a poll whose mapping refresh failed while the mapper held
\* units ended in a catalog.
C7_Witness ==
    /\ mapping_err # "none"
    /\ poll_outcome = "catalog"
    /\ Len(sensor_info) > 0
    /\ DOMAIN get_all_sensors # {}

\* a poll has ended
PollEnded == pc = "idle" /\ poll_outcome # "none"

\* C8, as stated: a poll ends in a catalog, an authentication failure or an
\* update failure, and in the authentication failure whenever the gateway
\* rejected the credentials during the poll.
C8_AuthWheneverRejected ==
    PollEnded =>
      /\ poll_outcome \in {"catalog", "ConfigEntryAuthFailed", "UpdateFailed"}
      /\ ("AuthenticationError" \in {mapping_err, live_err})
            => poll_outcome = "ConfigEntryAuthFailed"

\* C8, amended: a poll ends in exactly one of a catalog, an authentication
\* failure and an update failure; the authentication failure exactly when
\* the live-telemetry fetch is rejected for its credentials, the update
\* failure exactly for a connection error or another exception of it, the
\* catalog otherwise, whatever the mapping fetch of the poll raised.
C8_PollOutcomes ==
    PollEnded =>
      /\ poll_outcome \in {"catalog", "ConfigEntryAuthFailed", "UpdateFailed"}
      /\ poll_outcome = "ConfigEntryAuthFailed" <=> live_err = "AuthenticationError"
      /\ poll_outcome = "UpdateFailed" <=> live_err \in {"ConnectionError", "Exception"}
      /\ poll_outcome = "catalog" <=> live_err = "none"
      /\ poll_outcome = "catalog" <=> last_update_success

\* C8 witness: a poll whose live fetch was rejected ended in the
\* authentication failure.
C8_Witness ==
    PollEnded /\ live_err = "AuthenticationError" /\ poll_outcome = "ConfigEntryAuthFailed"

\* C9: when the gateway rejects the credentials during setup,
\* async_setup_entry surfaces the authentication failure.
C9_SetupAuthFailure ==
    coord_exc = "ConfigEntryAuthFailed" => entry_result = "ConfigEntryAuthFailed"

\* C10, as stated: after a poll that fails with a transport failure the
\* published readings are unchanged and the entities backed by them stay
\* available.
C10_ReadingsStayVisible ==
    [][TransportFailureStep =>
         /\ get_all_sensors' = get_all_sensors
         /\ \A e \in DOMAIN entities' \cap DOMAIN get_all_sensors' : available(e)']_vars

\* C10, amended: after a poll that fails with a transport failure
\* get_all_sensors and get_sensor_data return the same readings as before
\* it, and no entity is available until a poll succeeds.
C10_ReadingsKeptEntitiesUnavailable ==
    [][TransportFailureStep =>
         /\ get_all_sensors' = get_all_sensors
         /\ \A e \in DOMAIN get_all_sensors : get_sensor_data(e)' = get_sensor_data(e)
         /\ \A e \in DOMAIN entities' : ~available(e)']_vars

\* C10 witness: a poll failed with a transport failure while a catalog with
\* entities was published.
C10_Witness ==
    /\ poll_outcome = "UpdateFailed"
    /\ DOMAIN entities \cap DOMAIN get_all_sensors # {}

\* the pairs of a batch besides those of the section items whose extraction
\* raises: the flat list and the pairs of every other section item
OtherPairs(payload) ==
    payload.common_list
    \o FlatMap(SelectSeq(payload.ch_soil, LAMBDA item : ~SoilRaises(item)), 1, "ch_soil")
    \o (IF Wh25Raises(payload.wh25) THEN <<>> ELSE Wh25Pairs(payload.wh25))
    \o FlatMap(payload.piezoRain, 1, "piezoRain")
    \o FlatMap(payload.ch_aisle, 1, "ch_aisle")

\* C11: failures are isolated per reading: when the extraction raises for
\* one item of a batch, every other pair of the batch with a key and a raw
\* value still has its reading in the catalog of that cycle.
C11_PerReadingIsolation ==
    (pc = "idle" /\ raw_data # NoPayload) =>
       \A i \in 1..Len(OtherPairs(raw_data)) :
          (OtherPairs(raw_data)[i].id # "" /\ Truthy(OtherPairs(raw_data)[i].val))
             => /\ poll_outcome = "catalog"
                /\ \E e \in DOMAIN get_all_sensors :
                      /\ IsWireReading(get_all_sensors[e])
                      /\ get_all_sensors[e].sensor_key = OtherPairs(raw_data)[i].id

\* C13: a service call without a target starts one refresh per loaded
\* entry, all before any of them ends, and returns only when every one of
\* them has ended; no failure inside one entry's refresh ends the gather
\* early or leaves another entry's refresh undone.
C13_FanOutJoin ==
    /\ service_pc # "raised"
    /\ \A e \in Entries : tasks[e].pc # "raised"
    /\ (service_pc = "gather" /\ service.device_id = 0)
          => \A e \in domain_data : tasks[e].pc # "none"
    /\ (service_pc \in {"returned", "raised"} /\ service.device_id = 0)
          => \A e \in domain_data : tasks[e].pc = "done"

\* C13 witness: a refresh-all call over two loaded entries has returned;
\* the mapping fetch and the poll of one entry failed, those of the other
\* succeeded.
C13_Witness ==
    /\ service_pc = "returned"
    /\ service = [name |-> "refresh_mapping", device_id |-> 0]
    /\ \E e, f \in domain_data :
          /\ e # f
          /\ tasks[e].mapping_err # "none" /\ tasks[e].refresh = "UpdateFailed"
          /\ tasks[f].mapping_err = "none" /\ tasks[f].refresh = "catalog"
          /\ tasks[e].pc = "done" /\ tasks[f].pc = "done"

(***************************************************************************)
(* The assembler applied to one raw value.  The value is a string of at    *)
(* most MaxParts parts, a part being a character or one of a few words,    *)
(* and it arrives as a pair of the flat list under an ordinary key or      *)
(* under a battery key, or as the battery field of a soil, rain or         *)
(* auxiliary-channel item.                                                 *)
(***************************************************************************)
MaxParts == 3

Parts == {<<"-">>, <<".">>, <<" ">>, <<"3">>, <<"6">>, <<"%">>,
          <<"h", "P", "a">>, <<"N", "u", "l", "l">>, <<"N", "O", "N", "E">>,
          <<"n", "/", "a">>}

RECURSIVE RawValuesOf(_)
RawValuesOf(n) ==
    IF n = 0 THEN {<<>>}
    ELSE LET shorter == RawValuesOf(n - 1)
         IN shorter \cup {p \o x : p \in Parts, x \in shorter}

RawValues == RawValuesOf(MaxParts)

\* the payload that carries the raw value in the given place
ValuePayload(kind, raw) ==
    CASE kind = "flat" ->
            Payload(<<Pair("tempf", raw)>>, <<>>, <<>>, <<>>, <<>>)
      [] kind = "flat_battery" ->
            Payload(<<Pair("wh57batt", raw)>>, <<>>, <<>>, <<>>, <<>>)
      [] kind = "ch_soil" ->
            Payload(<<>>, <<[channel |-> <<"1">>, humidity |-> <<"4", "5", "%">>,
                             battery |-> raw]>>, <<>>, <<>>, <<>>)
      [] kind = "piezoRain" ->
            Payload(<<>>, <<>>, <<>>,
                    <<[id |-> "srain_piezo", val |-> <<"1">>, battery |-> raw,
                       ws90_ver |-> <<"1", "5", "8">>]>>, <<>>)
      [] kind = "ch_aisle" ->
            Payload(<<>>, <<>>, <<>>, <<>>,
                    <<[channel |-> <<"1">>, temp |-> <<"2", "1", ".", "5">>,
                       humidity |-> <<"4", "5", "%">>, battery |-> raw]>>)

ValueInit ==
    /\ now = 0
    /\ include_inactive = TRUE
    /\ sensor_info = <<>>
    /\ hardware_mapping = EmptyDict
    /\ last_mapping_update = -1
    /\ gateway_info = NoGatewayInfo
    /\ version_calls = 0
    /\ mapping_attempts = <<>>
    /\ version_err = "none"
    /\ data = NoData
    /\ last_update_success = TRUE
    /\ pc = "live"
    /\ tick_now = 0
    /\ mapping_err = "none"
    /\ live_err = "none"
    /\ poll_outcome = "none"
    /\ \E kind \in {"flat", "flat_battery", "ch_soil", "piezoRain", "ch_aisle"} :
          \E raw \in RawValues : raw_data = ValuePayload(kind, raw)
    /\ ws90_id = None
    /\ processed = EmptyDict
    /\ setup_pc = "start"
    /\ coord_exc = "none"
    /\ entry_result = "pending"
    /\ devices = {}
    /\ entities = EmptyDict
    /\ domain_data = {}
    /\ service = NoService
    /\ service_pc = "idle"
    /\ tasks = [e \in Entries |-> NoTask]

\* _process_live_data up to the catalog, on the payload at hand
Assemble ==
    /\ pc = "live"
    /\ LET ws90_present == Ws90Detected(raw_data)
       IN /\ ws90_id' = IF ws90_present
                        THEN _get_or_generate_ws90_hardware_id(
                                sensor_info, Ws90Metadata(raw_data))
                        ELSE None
          /\ sensor_info' = IF ws90_present
                            THEN Ws90SensorInfo(sensor_info, Ws90Metadata(raw_data))
                            ELSE sensor_info
          /\ hardware_mapping' =
                IF ws90_present
                THEN Ws90HardwareMapping(sensor_info, hardware_mapping,
                                         Ws90Metadata(raw_data))
                ELSE hardware_mapping
          /\ processed' = SensorsData(raw_data, include_inactive, sensor_info,
                                      hardware_mapping)
    /\ pc' = "assembled"
    /\ UNCHANGED <<serviceVars, setupVars, now, include_inactive, last_mapping_update,
                   gateway_info, version_calls, mapping_attempts, version_err, data,
                   last_update_success, tick_now, mapping_err, live_err,
                   poll_outcome, raw_data>>

ValueSpec == ValueInit /\ [][Assemble]_vars

\* the battery values of the payload at hand: the wire key each one is
\* reported under and the raw value
BatteryInputs ==
    {<<raw_data.common_list[i].id, raw_data.common_list[i].val>> :
        i \in {j \in 1..Len(raw_data.common_list) :
                  raw_data.common_list[j].id \in BATTERY_SENSORS}}
    \cup {<<"soilbatt1", raw_data.ch_soil[i].battery>> : i \in 1..Len(raw_data.ch_soil)}
    \cup {<<"ws90batt", raw_data.piezoRain[i].battery>> : i \in 1..Len(raw_data.piezoRain)}
    \cup {<<"batt1", raw_data.ch_aisle[i].battery>> : i \in 1..Len(raw_data.ch_aisle)}

\* the number a normalized value stands for, when it is integer-like
NumberOf(state) ==
    IF state.t = "int" THEN state.v
    ELSE IF state.t = "str" /\ IsDigit(state.s) THEN ToInt(state.s)
    ELSE -1

\* the readings of the assembled catalog under a wire key
ReadingsOf(sensor_key) ==
    {processed[e] : e \in {x \in DOMAIN processed : processed[x].sensor_key = sensor_key}}

\* C16: in the assembled catalog every battery reading whose raw value b is
\* integer-like has the value 20*b when b <= 5 and b when b > 5, wherever
\* the battery value came from.
C16_BatteryScaledOnce ==
    pc = "assembled" =>
       \A in \in BatteryInputs :
          IsDigit(in[2]) =>
             /\ ReadingsOf(in[1]) # {}
             /\ \A r \in ReadingsOf(in[1]) :
                   NumberOf(r.state) = IF ToInt(in[2]) <= 5 THEN 20 * ToInt(in[2])
                                       ELSE ToInt(in[2])

\* the pairs of the flat list under an ordinary (non-battery) key: the
\* values that go through the normalizer as they are
NormalizerInputs ==
    {raw_data.common_list[i] :
        i \in {j \in 1..Len(raw_data.common_list) :
                  raw_data.common_list[j].id \notin BATTERY_SENSORS}}

\* a raw value that stands for no reading: empty, one of the tokens in any
\* letter case, or made only of dashes, dots and whitespace
IsNoReadingText(raw) ==
    \/ raw = <<>>
    \/ Lower(raw) \in {<<"-", "-">>, <<"n", "u", "l", "l">>, <<"n", "o", "n", "e">>,
                       <<"n", "/", "a">>}
    \/ \A i \in 1..Len(raw) : raw[i] \in {"-", ".", " "}

\* C17: the normalizer returns NoReading for the empty string, for the
\* tokens --, null, none and n/a in any letter case, and for any string made
\* only of dashes, dots and whitespace; none of them gives a number or a
\* string value.
C17_SentinelsGiveNoReading ==
    pc = "assembled" =>
       \A item \in NormalizerInputs :
          IsNoReadingText(item.val) =>
             /\ ReadingsOf(item.id) # {}
             /\ \A r \in ReadingsOf(item.id) : r.state = NoReading

\* C17 witness: the token n/a, and a string of a dot between two blanks,
\* have gone through the normalizer
C17_Witness ==
    /\ pc = "assembled"
    /\ \E item \in NormalizerInputs :
          /\ item.val \in {<<"n", "/", "a">>, <<" ", ".", " ">>}
          /\ \E r \in ReadingsOf(item.id) : r.state = NoReading

\* a number as text: an optional sign, then digits with at most one decimal
\* point, ending in a digit
IsNumberText(p) ==
    LET q == Unsigned(p) IN
    /\ Len(q) > 0
    /\ \A i \in 1..Len(q) : IsDigitChar(q[i]) \/ q[i] = "."
    /\ Cardinality({i \in 1..Len(q) : q[i] = "."}) <= 1
    /\ IsDigitChar(q[Len(q)])

\* a unit suffix: nothing, or, after optional blanks, text that begins with
\* a letter, a percent sign or a slash
IsUnitSuffix(u) ==
    \/ \A i \in 1..Len(u) : u[i] = " "
    \/ \E k \in 1..Len(u) :
          /\ \A i \in 1..(k - 1) : u[i] = " "
          /\ u[k] \in Alpha \cup {"%", "/"}

\* the lengths of the numeric remainders of a trimmed value
NumericRemainders(s) ==
    {k \in 1..Len(s) : /\ IsNumberText(SubSeq(s, 1, k))
                       /\ IsUnitSuffix(SubSeq(s, k + 1, Len(s)))}

\* the value a number text stands for
NumberValue(p) ==
    IF \E i \in 1..Len(p) : p[i] = "." THEN FloatVal(p) ELSE IntVal(ToIntSigned(p))

\* digits with a decimal point that end in the point: a numeric form
\* without a suffix
IsPointEndedNumber(s) ==
    LET q == Unsigned(s) IN
    /\ Len(q) >= 2
    /\ q[Len(q)] = "."
    /\ IsDigit(SubSeq(q, 1, Len(q) - 1))

\* what the normalizer is to return for a trimmed value that has a reading
NormalizedAs(s, state) ==
    IF NumericRemainders(s) # {}
    THEN \E k \in NumericRemainders(s) : state = NumberValue(SubSeq(s, 1, k))
    ELSE IF IsPointEndedNumber(s) THEN state = FloatVal(s)
    ELSE state = StrVal(s)

\* C18 as stated: for a raw value that is neither a sentinel nor a battery
\* code, the normalizer strips a trailing unit suffix and returns the numeric
\* remainder, an integer when it has no decimal point and a decimal
\* otherwise, and returns the trimmed string when there is no numeric form.
C18_UnitStripped ==
    pc = "assembled" =>
       \A item \in NormalizerInputs :
          ~IsNoReadingText(item.val) =>
             /\ ReadingsOf(item.id) # {}
             /\ \A r \in ReadingsOf(item.id) : NormalizedAs(Strip(item.val), r.state)

\* C18, amended: the same for a raw value that, once trimmed, is neither a
\* sentinel nor begins with two dashes; the numeric remainder is a number
\* text ending in a digit, and the suffix begins with a letter, a percent
\* sign or a slash.
C18_UnitStrippedUnlessDashes ==
    pc = "assembled" =>
       \A item \in NormalizerInputs :
          LET s == Strip(item.val)
          IN (~IsNoReadingText(s) /\ ~(Len(s) >= 2 /\ s[1] = "-" /\ s[2] = "-")) =>
                /\ ReadingsOf(item.id) # {}
                /\ \A r \in ReadingsOf(item.id) : NormalizedAs(s, r.state)

\* C18 witness: 36% has become the integer 36, and .6hPa the decimal .6
C18_Witness ==
    /\ pc = "assembled"
    /\ \E item \in NormalizerInputs :
          \/ /\ item.val = <<"3", "6", "%">>
             /\ \E r \in ReadingsOf(item.id) : r.state = IntVal(36)
          \/ /\ item.val = <<".", "6", "h", "P", "a">>
             /\ \E r \in ReadingsOf(item.id) : r.state = FloatVal(<<".", "6">>)

\* C14: get_version is called at most once over all the polls of the
\* coordinator, and every poll that returns after the first one that did
\* returns the same gateway info.
C14_VersionFetchedOnce ==
    [][/\ version_calls' <= 1
       /\ (data.has /\ data'.has) => data'.gateway_info = data.gateway_info]_vars

\* C14 witness: the entities were created from the first catalog, the
\* published catalog is a later one, and get_version was called once.
C14_Witness ==
    /\ setup_pc = "loaded"
    /\ DOMAIN entities # {}
    /\ data.has
    /\ DOMAIN data.sensors # DOMAIN entities
    /\ poll_outcome = "catalog"
    /\ version_calls = 1

\* C15: when get_version fails during a poll, the poll still ends in its
\* full catalog, and the gateway info is the placeholder: model Unknown,
\* firmware version Unknown, gateway id unknown, the configured host.
C15_PlaceholderOnFailure ==
    version_err # "none" =>
       /\ poll_outcome = "catalog"
       /\ last_update_success
       /\ data.has
       /\ data.sensors = processed
       /\ \A i \in LivePairs(raw_data) :
             \E e \in DOMAIN data.sensors :
                data.sensors[e].sensor_key = AllSensorItems(raw_data)[i].id
       /\ data.gateway_info.model = <<"U", "n", "k", "n", "o", "w", "n">>
       /\ data.gateway_info.firmware_version = <<"U", "n", "k", "n", "o", "w", "n">>
       /\ data.gateway_info.gateway_id = <<"u", "n", "k", "n", "o", "w", "n">>
       /\ data.gateway_info.host = Host

\* C15 witness: a poll whose get_version failed published a catalog with
\* readings.
C15_Witness ==
    /\ version_err # "none"
    /\ poll_outcome = "catalog"
    /\ DOMAIN data.sensors # {}

\* the tables hold the result of the injection of the last pass: the pass
\* detected the station and no later poll has got as far as the mapper
InjectionDone ==
    /\ PassDone
    /\ Ws90Detected(raw_data)
    /\ pc \in {"version", "idle"}

\* C19: the injection is idempotent: once a pass has injected the station,
\* running the injection again with the same metadata leaves the unit table
\* and the wire-key table as they are.
C19_InjectionIdempotent ==
    InjectionDone =>
       /\ Ws90SensorInfo(sensor_info, Ws90Metadata(raw_data)) = sensor_info
       /\ Ws90HardwareMapping(sensor_info, hardware_mapping, Ws90Metadata(raw_data))
             = hardware_mapping

\* the wire keys the all-in-one station is known to report
StationKeys ==
    {"0x02", "0x03", "0x07", "0x0B", "0x0C", "0x19", "0x0A", "0x6D", "0x15",
     "0x17", "0x0D", "0x0E", "0x7C", "0x10", "0x11", "0x12", "0x13", "0x14",
     "3", "5", "srain_piezo", "ws90batt"}

\* C20: a pass that injects the station changes only the record of the
\* injected unit and the owners of the station's keys: every other unit
\* keeps its record and its place in the table, no other unit is added, and
\* every other wire key keeps its owner.
C20_InjectionFrame ==
    [][(PassStep /\ Ws90Detected(raw_data')) =>
          /\ Len(sensor_info') >= Len(sensor_info)
          /\ \A i \in 1..Len(sensor_info) :
                sensor_info[i].hardware_id # ws90_id' => sensor_info'[i] = sensor_info[i]
          /\ \A i \in 1..Len(sensor_info') :
                (i > Len(sensor_info) \/ sensor_info'[i] # sensor_info[i])
                   => sensor_info'[i].hardware_id = ws90_id'
          /\ DOMAIN hardware_mapping' \ StationKeys = DOMAIN hardware_mapping \ StationKeys
          /\ \A k \in DOMAIN hardware_mapping \ StationKeys :
                hardware_mapping'[k] = hardware_mapping[k]]_vars

\* C20 witness: the station has been injected into tables that hold another
\* unit and a wire key of that unit
C20_Witness ==
    /\ InjectionDone
    /\ ws90_id # None
    /\ \E i \in 1..Len(sensor_info) : sensor_info[i].hardware_id # ws90_id
    /\ \E k \in DOMAIN hardware_mapping \ StationKeys : hardware_mapping[k] # ws90_id
    /\ \E k \in StationKeys \cap DOMAIN hardware_mapping : hardware_mapping[k] = ws90_id

(***************************************************************************)
(* The device layer on any unit table.  The mapper is not among the        *)
(* sources, so the hardware ids its tables may hold when the device        *)
(* registry and the entities read them are drawn from a set that holds a   *)
(* plain id and the reserved ids in several spellings.  The state is the   *)
(* one after the initial mapping refresh of the setup.                     *)
(***************************************************************************)
DeviceIds == {HW_A,
              <<"F", "F", "F", "F", "F", "F", "F", "E">>,
              <<"f", "f", "f", "f", "f", "f", "f", "f">>,
              <<"F", "f", "F", "f", "F", "f", "F", "f">>,
              <<"0", "0", "0", "0", "0", "0", "0", "0">>}

\* EcowittLocalSensor.device_info: the identifier of the device the entity
\* created for entity_id is attached to
device_info(entity_id) ==
    LET _hardware_id == entities[entity_id].hardware_id
    IN IF /\ Truthy(_hardware_id)
          /\ Upper(_hardware_id) \notin SentinelIds
          /\ has_sensor_info(sensor_info, _hardware_id)
       THEN _hardware_id
       ELSE GatewayDeviceId

DeviceInit ==
    /\ now = 0
    /\ include_inactive \in BOOLEAN
    /\ \E h \in DeviceIds :
          /\ sensor_info = <<UnitOfEntry(Entry(h, Wh90, "48", <<"1">>, <<"3">>, <<"3">>))>>
          /\ hardware_mapping = [k \in KeysOfUnit("wh90", <<"1">>) |-> h]
    /\ last_mapping_update = -1
    /\ gateway_info = NoGatewayInfo
    /\ version_calls = 0
    /\ mapping_attempts = <<>>
    /\ version_err = "none"
    /\ data = NoData
    /\ last_update_success = TRUE
    /\ pc = "idle"
    /\ tick_now = 0
    /\ mapping_err = "none"
    /\ live_err = "none"
    /\ poll_outcome = "none"
    /\ raw_data = NoPayload
    /\ ws90_id = None
    /\ processed = EmptyDict
    /\ setup_pc = "registry"
    /\ coord_exc = "none"
    /\ entry_result = "pending"
    /\ devices = {}
    /\ entities = EmptyDict
    /\ domain_data = {}
    /\ service = NoService
    /\ service_pc = "idle"
    /\ tasks = [e \in Entries |-> NoTask]

DeviceNext ==
    \/ Advance
    \/ SetupDeviceRegistry
    \/ TickBegin
    \/ TickMapping
    \/ TickLive
    \/ TickLiveFails
    \/ TickAssemblyFails
    \/ TickVersion

DeviceSpec == DeviceInit /\ [][DeviceNext]_vars

\* a reserved hardware id, in any letter case
IsReservedId(h) ==
    Lower(h) \in {<<"f", "f", "f", "f", "f", "f", "f", "e">>,
                  <<"f", "f", "f", "f", "f", "f", "f", "f">>,
                  <<"0", "0", "0", "0", "0", "0", "0", "0">>}

\* C21: a reserved hardware id (FFFFFFFE, FFFFFFFF, 00000000, in any letter
\* case) is never a device of its own: the device registry provisions no
\* device for it, and an entity whose reading carries it is attached to the
\* gateway device.
C21_ReservedIdIsNoDevice ==
    /\ \A d \in devices : ~IsReservedId(d)
    /\ \A e \in DOMAIN entities :
          IsReservedId(entities[e].hardware_id) => device_info(e) = GatewayDeviceId

\* C21 witness: the unit table holds a unit under a reserved id, the device
\* registry has run, and an entity carries that id
C21_Witness ==
    /\ setup_pc = "loaded"
    /\ devices # {}
    /\ \E i \in 1..Len(sensor_info) : IsReservedId(sensor_info[i].hardware_id)
    /\ \E e \in DOMAIN entities :
          /\ IsReservedId(entities[e].hardware_id)
          /\ has_sensor_info(sensor_info, entities[e].hardware_id)

\* the hardware ids a reading may carry, and none
IdentityInputs ==
    DeviceIds \cup {HW_B, <<"D", "1", "5", "8">>,
                    <<"W", "S", "9", "0", "_", "D", "E", "F", "A", "U", "L", "T">>, None}

\* C22: the unique id of an entity is a function of the wire key and the
\* hardware id of its reading, or of the wire key and the config entry when
\* the reading has no hardware id: two entities with the same key and
\* hardware id have the same unique id, the same key on any other hardware
\* unit has another unique id, and so has the same key on the gateway.
C22_UniqueIdByKeyAndUnit ==
    /\ \A e1, e2 \in DOMAIN entities :
          (/\ entities[e1].sensor_key = entities[e2].sensor_key
           /\ entities[e1].hardware_id = entities[e2].hardware_id)
             => entities[e1].unique_id = entities[e2].unique_id
    /\ \A e \in DOMAIN entities :
          \A h \in IdentityInputs :
             h # entities[e].hardware_id =>
                unique_id(entities[e].sensor_key, h) # entities[e].unique_id

\* C22 witness: entities exist for a reading with a hardware id and for a
\* reading of the gateway
C22_Witness ==
    /\ setup_pc = "loaded"
    /\ \E e \in DOMAIN entities : Truthy(entities[e].hardware_id)
    /\ \E e \in DOMAIN entities : entities[e].hardware_id = None

\* a telemetry tick starts
TickStarts == pc = "idle" /\ pc' # "idle"

\* the clock reading of the last time-gated attempt
LastAttempt == mapping_attempts[Len(mapping_attempts)]

\* C23: a tick attempts the mapping refresh exactly when there has been no
\* time-gated attempt yet or at least MappingInterval has elapsed since the
\* last one, and the live-telemetry fetch of a tick is in flight only when
\* every attempt started so far has completed.
C23_TimeGatedRefresh ==
    [][/\ TickStarts =>
             (pc' = "mapping" <=>
                 (mapping_attempts = <<>> \/ now - LastAttempt >= MappingInterval))
       /\ TickStarts => (pc' = "mapping" <=> mapping_attempts' # mapping_attempts)
       /\ pc' = "live" =>
             /\ mapping_attempts' # <<>>
             /\ last_mapping_update' = mapping_attempts'[Len(mapping_attempts')]]_vars

\* C23 witness: the live fetch of a tick is in flight after the second
\* time-gated attempt, and get_version has been called by an earlier tick
C23_Witness ==
    /\ pc = "live"
    /\ Len(mapping_attempts) = 2
    /\ last_mapping_update = LastAttempt
    /\ version_calls = 1

\* C27: the gate is advanced by every time-gated attempt, a failed one
\* included: once an attempt has ended the gate stands at its clock reading,
\* and any two time-gated attempts are at least MappingInterval apart.
C27_GateAdvancedOnFailure ==
    /\ (pc # "mapping" /\ mapping_attempts # <<>>) => last_mapping_update = LastAttempt
    /\ \A i, j \in 1..Len(mapping_attempts) :
          i < j => mapping_attempts[j] - mapping_attempts[i] >= MappingInterval

\* C27 witness: the second time-gated attempt has failed, the gate stands at
\* its clock reading and the tick has gone on to its catalog
C27_Witness ==
    /\ mapping_err # "none"
    /\ pc = "idle"
    /\ poll_outcome = "catalog"
    /\ Len(mapping_attempts) = 2
    /\ last_mapping_update = LastAttempt

\* a step that changes the mapper's tables otherwise than by the injection
\* of a processing pass
TablesReplaced ==
    /\ sensor_info' # sensor_info \/ hardware_mapping' # hardware_mapping
    /\ ~(PassStep /\ Ws90Detected(raw_data'))

StationRecords(info) == {info[i] : i \in StationUnits(info)}

ResolvedPlaces(sensor_key) ==
    {i \in 1..Len(AllSensorItems(raw_data)) :
        /\ AllSensorItems(raw_data)[i].id = sensor_key
        /\ sensor_key # ""
        /\ (include_inactive \/ AllSensorItems(raw_data)[i].val \notin {None, <<>>})}

\* the value a pair of the merged list carries (empty for none)
PairValue(i) ==
    IF AllSensorItems(raw_data)[i].val = None THEN <<>> ELSE AllSensorItems(raw_data)[i].val

\* C29: the catalog of a pass holds every reading under its own entity id
\* and at most one reading per entity key; when several pairs of the merged
\* list resolve to one key, the reading kept is the one of the last pair in
\* merge order.
C29_LastPairWins ==
    PassDone =>
       \A e \in DOMAIN processed :
          /\ processed[e].entity_id = e
          /\ IsWireReading(processed[e]) =>
                /\ \A f \in DOMAIN processed :
                      (IsWireReading(processed[f])
                       /\ processed[f].sensor_key = processed[e].sensor_key) => f = e
                /\ ResolvedPlaces(processed[e].sensor_key) # {}
                /\ \E i \in ResolvedPlaces(processed[e].sensor_key) :
                      /\ \A j \in ResolvedPlaces(processed[e].sensor_key) : j <= i
                      /\ processed[e].raw_value = PairValue(i)

\* C29 witness: two pairs of the merged list under one wire key carry
\* different values, and the catalog holds the later one
C29_Witness ==
    /\ PassDone
    /\ \E e \in DOMAIN processed :
          \E i, j \in ResolvedPlaces(processed[e].sensor_key) :
             /\ i < j
             /\ PairValue(i) # PairValue(j)
             /\ processed[e].raw_value = PairValue(j)

\* the units of a table whose device model contains wh90, in any letter case
ModelHasWh90(info) ==
    {i \in 1..Len(info) : Contains(Lower(info[i].device_model), <<"w", "h", "9", "0">>)}

\* C30: when a pass detects the station and the table holds a unit whose
\* device model contains wh90, the pass reuses the id of the first such unit
\* and adds no unit; afterwards that unit's record is the synthetic one,
\* with sensor type WS90, device model ws90, an empty channel and signal 4,
\* whatever channel and signal the snapshot gave.
C30_Wh90UnitReused ==
    [][(PassStep /\ Ws90Detected(raw_data') /\ ModelHasWh90(sensor_info) # {}) =>
          \E i \in ModelHasWh90(sensor_info) :
             /\ \A j \in ModelHasWh90(sensor_info) : i <= j
             /\ ws90_id' = sensor_info[i].hardware_id
             /\ Len(sensor_info') = Len(sensor_info)
             /\ sensor_info'[i].hardware_id = sensor_info[i].hardware_id
             /\ sensor_info'[i].sensor_type = "WS90"
             /\ sensor_info'[i].device_model = <<"w", "s", "9", "0">>
             /\ sensor_info'[i].channel = <<>>
             /\ sensor_info'[i].signal = <<"4">>]_vars

\* C30 witness: the unit the snapshot reported as a wh90 on channel 1 with
\* signal 3 has been reused by a pass and has lost both
C30_Witness ==
    /\ InjectionDone
    /\ ws90_id = HW_A
    /\ has_sensor_info(sensor_info, HW_A)
    /\ get_sensor_info(sensor_info, HW_A).channel = <<>>
    /\ get_sensor_info(sensor_info, HW_A).signal = <<"4">>
    /\ get_sensor_info(UpdateSensorInfo(Snapshots[2]), HW_A).channel = <<"1">>
    /\ get_sensor_info(UpdateSensorInfo(Snapshots[2]), HW_A).signal = <<"3">>

====
